---- MODULE Spec2Model ----
(***************************************************************************)
(* exim2sieve: the rule-conversion engine.                                 *)
(*                                                                         *)
(*   text filter --ParseFilterFile--> Filter --ConvertFilters-->           *)
(*   []SieveScript --CombineScripts--> SieveScript                         *)
(*                                                                         *)
(* Go strings are TLA+ strings; the functions of package strings and the   *)
(* fmt verbs the engine uses are operators on them, computed character by  *)
(* character.                                                              *)
(***************************************************************************)
EXTENDS Integers, Sequences, FiniteSets, TLC

VARIABLES
    pc,          \* position of the run: scan, loaded, converted, combined, ...
    file,        \* the lines bufio.Scanner yields for the filter file
    pos,         \* index of the next line to scan
    curName,     \* ParseFilterFile: curName
    condLines,   \* ParseFilterFile: condLines
    actionLines, \* ParseFilterFile: actionLines
    inIf,        \* ParseFilterFile: inIf
    inThen,      \* ParseFilterFile: inThen
    entries,     \* ParseFilterFile: entries
    filter,      \* the sieve.Filter handed to ConvertFilters
    scripts,     \* the []SieveScript ConvertFilters returned / CombineScripts takes
    target,      \* the name argument of CombineScripts
    combined,    \* the SieveScript CombineScripts returned
    rules,       \* the []Rule handed to buildConditions
    cond,        \* buildConditions: the expression returned
    condBody,    \* buildConditions: the usesBody flag returned
    pattern,     \* the pattern handed to simpleRegexToGlob
    glob,        \* simpleRegexToGlob: the (glob, ok) pair returned
    loopS,       \* parseConditions: s, the text the loop has left
    loopFirst,   \* parseConditions: first
    loopRules,   \* parseConditions: rules
    actions,     \* flush: the []Action parseActions returned
    flags,       \* main: the values flag.Parse stored
    ran,         \* main: the handlers called so far
    status,      \* main: how the process ended
    backupTree,  \* the directory tree under backupRoot, as os.ReadDir lists it
    domainFilter, \* CreateMailboxesFromBackup: domainFilter
    domIdx,      \* CreateMailboxesFromBackup: index of ent in entries
    userIdx,     \* CreateMailboxesFromBackup: index of ue in userEntries
    ensured,     \* the domains EnsureDomain returned nil for in this run
    mailboxes,   \* the mailcow server: the mailboxes and their passwords
    attempts,    \* the calls of CreateMailbox made so far and their answers
    pwLog,       \* the lines written to mailcow_mailboxes.log
    logged       \* the lines written to logWriter

parserVars == <<file, pos, curName, condLines, actionLines, inIf, inThen, entries>>
genVars    == <<filter, scripts, target, combined>>
condVars   == <<rules, cond, condBody>>
globVars   == <<pattern, glob>>
loopVars   == <<loopS, loopFirst, loopRules, actions>>
cliVars    == <<flags, ran, status>>
mcVars     == <<backupTree, domainFilter, domIdx, userIdx, ensured, mailboxes,
                attempts, pwLog, logged>>
vars       == <<pc, parserVars, genVars, condVars, globVars, loopVars, cliVars, mcVars>>

(***************************************************************************)
(* Package strings, fmt and sort                                           *)
(*                                                                         *)
(* Every operator binds its arguments once, as x \in {arg}, so that an     *)
(* argument is evaluated once however often the body reads it.             *)
(***************************************************************************)
Only(S) == CHOOSE v \in S : TRUE

\* s[a:b] of Go: 0-based, b exclusive
Slice(s, a, b) == SubSeq(s, a + 1, b)

HasPrefix(s0, p0) ==
    \E s \in {s0}, p \in {p0} : Len(s) >= Len(p) /\ SubSeq(s, 1, Len(p)) = p

HasSuffix(s0, p0) ==
    \E s \in {s0}, p \in {p0} :
        Len(s) >= Len(p) /\ SubSeq(s, Len(s) - Len(p) + 1, Len(s)) = p

TrimPrefix(s0, p0) ==
    Only({ IF Len(s) >= Len(p) /\ SubSeq(s, 1, Len(p)) = p
           THEN SubSeq(s, Len(p) + 1, Len(s)) ELSE s : s \in {s0}, p \in {p0} })

TrimSuffix(s0, p0) ==
    Only({ IF Len(s) >= Len(p) /\ SubSeq(s, Len(s) - Len(p) + 1, Len(s)) = p
           THEN SubSeq(s, 1, Len(s) - Len(p)) ELSE s : s \in {s0}, p \in {p0} })

\* strings.Index: the 0-based index of the first occurrence of sub, or -1
Index(s0, sub0) ==
    Only({ IF \E i \in 0..(Len(s) - Len(sub)) : SubSeq(s, i + 1, i + Len(sub)) = sub
           THEN CHOOSE i \in 0..(Len(s) - Len(sub)) :
                    /\ SubSeq(s, i + 1, i + Len(sub)) = sub
                    /\ \A j \in 0..(i - 1) : SubSeq(s, j + 1, j + Len(sub)) # sub
           ELSE -1 : s \in {s0}, sub \in {sub0} })

\* strings.LastIndex for a one-character sub
LastIndex(s0, sub0) ==
    Only({ IF \E i \in 1..Len(s) : SubSeq(s, i, i) = sub
           THEN CHOOSE i \in 0..(Len(s) - 1) :
                    /\ SubSeq(s, i + 1, i + 1) = sub
                    /\ \A j \in (i + 2)..Len(s) : SubSeq(s, j, j) # sub
           ELSE -1 : s \in {s0}, sub \in {sub0} })

Contains(s, sub) == Index(s, sub) # -1

\* the characters of a string, as a set
CharsOf(s0) == Only({ {SubSeq(s, i, i) : i \in 1..Len(s)} : s \in {s0} })

\* strings.IndexAny: the 0-based index of the first character of s that is in chars
IndexAny(s0, chars0) ==
    Only({ IF \E i \in 1..Len(s) : SubSeq(s, i, i) \in cs
           THEN CHOOSE i \in 0..(Len(s) - 1) :
                    /\ SubSeq(s, i + 1, i + 1) \in cs
                    /\ \A j \in 1..i : SubSeq(s, j, j) \notin cs
           ELSE -1 : s \in {s0}, cs \in {CharsOf(chars0)} })

ContainsAny(s0, chars0) ==
    \E s \in {s0}, cs \in {CharsOf(chars0)} : \E i \in 1..Len(s) : SubSeq(s, i, i) \in cs

\* unicode.IsSpace on the characters the model uses
Spaces == {" ", "\t", "\n", "\r"}

\* strings.Trim(s, cutset) for a cutset given as a set of characters
TrimSet(s0, cs0) ==
    Only({ IF \A i \in 1..Len(s) : SubSeq(s, i, i) \in cs THEN ""
           ELSE SubSeq(s,
                       CHOOSE i \in 1..Len(s) :
                           /\ SubSeq(s, i, i) \notin cs
                           /\ \A j \in 1..(i - 1) : SubSeq(s, j, j) \in cs,
                       CHOOSE i \in 1..Len(s) :
                           /\ SubSeq(s, i, i) \notin cs
                           /\ \A j \in (i + 1)..Len(s) : SubSeq(s, j, j) \in cs)
           : s \in {s0}, cs \in {cs0} })

TrimSpace(s) == TrimSet(s, Spaces)

\* strings.Split(s, sep), sep non-empty: always at least one element
RECURSIVE Split(_, _)
Split(s0, sep0) ==
    Only({ IF i = -1 THEN <<s>>
           ELSE <<SubSeq(s, 1, i)>> \o Split(SubSeq(s, i + Len(sep) + 1, Len(s)), sep)
           : s \in {s0}, sep \in {sep0}, i \in {Index(s0, sep0)} })

RECURSIVE Join(_, _)
Join(elems0, sep0) ==
    Only({ IF Len(elems) = 0 THEN ""
           ELSE IF Len(elems) = 1 THEN elems[1]
           ELSE elems[1] \o sep \o Join(Tail(elems), sep)
           : elems \in {elems0}, sep \in {sep0} })

\* strings.Fields: the maximal runs of non-space characters
RECURSIVE Fields(_)
Fields(s0) ==
    Only({ IF t = "" THEN <<>>
           ELSE IF i = -1 THEN <<t>>
           ELSE <<SubSeq(t, 1, i)>> \o Fields(SubSeq(t, i + 1, Len(t)))
           : t \in {TrimSpace(s0)}, i \in {IndexAny(TrimSpace(s0), " \t\n\r")} })

UpperLetters == "ABCDEFGHIJKLMNOPQRSTUVWXYZ"
LowerLetters == "abcdefghijklmnopqrstuvwxyz"

\* the lower-case letter of each upper-case letter
LowerOf ==
    [c \in {SubSeq(UpperLetters, i, i) : i \in 1..26} |->
        Only({ SubSeq(LowerLetters, i, i)
               : i \in {k \in 1..26 : SubSeq(UpperLetters, k, k) = c} })]

\* unicode.ToLower on one character
LowerChar(c0) ==
    Only({ IF c \in DOMAIN LowerOf THEN LowerOf[c] ELSE c : c \in {c0} })

\* a string is mapped character by character, halving it down to single
\* characters
RECURSIVE ToLower(_)
ToLower(s0) ==
    Only({ IF Len(s) = 0 THEN ""
           ELSE IF Len(s) = 1 THEN LowerChar(s)
           ELSE ToLower(SubSeq(s, 1, Len(s) \div 2))
                    \o ToLower(SubSeq(s, Len(s) \div 2 + 1, Len(s))) : s \in {s0} })

\* strings.ReplaceAll(s, old, new) for a one-character old
RECURSIVE ReplaceAll(_, _, _)
ReplaceAll(s0, old0, new0) ==
    Only({ IF Len(s) = 0 THEN ""
           ELSE IF Len(s) = 1 THEN (IF s = old THEN new ELSE s)
           ELSE ReplaceAll(SubSeq(s, 1, Len(s) \div 2), old, new)
                    \o ReplaceAll(SubSeq(s, Len(s) \div 2 + 1, Len(s)), old, new)
           : s \in {s0}, old \in {old0}, new \in {new0} })

\* The printable ASCII characters in code order: 32..95 and 97..126 (a TLA+
\* string cannot hold the grave accent, 96). Byte-wise string comparison
\* (sort.Strings) orders by these codes.
AsciiLow ==
    " !\"#$%&'()*+,-./0123456789:;<=>?@ABCDEFGHIJKLMNOPQRSTUVWXYZ[\\]^_"
AsciiHigh == "abcdefghijklmnopqrstuvwxyz{|}~"

\* the byte value of a character (control characters sort before the space)
Ord(c0) ==
    Only({ IF \E i \in 1..Len(AsciiLow) : SubSeq(AsciiLow, i, i) = c
           THEN 31 + (CHOOSE i \in 1..Len(AsciiLow) : SubSeq(AsciiLow, i, i) = c)
           ELSE IF \E i \in 1..Len(AsciiHigh) : SubSeq(AsciiHigh, i, i) = c
           THEN 96 + (CHOOSE i \in 1..Len(AsciiHigh) : SubSeq(AsciiHigh, i, i) = c)
           ELSE IF c = "\t" THEN 9
           ELSE IF c = "\n" THEN 10
           ELSE 13 : c \in {c0} })

\* a < b of Go strings
RECURSIVE StrLess(_, _)
StrLess(a0, b0) ==
    \E a \in {a0}, b \in {b0} :
        IF b = "" THEN FALSE
        ELSE IF a = "" THEN TRUE
        ELSE IF Head(a) = Head(b) THEN StrLess(Tail(a), Tail(b))
        ELSE Ord(Head(a)) < Ord(Head(b))

\* sort.Strings: insertion of each element into the sorted rest
RECURSIVE InsertSorted(_, _)
InsertSorted(x0, sorted0) ==
    Only({ IF Len(sorted) = 0 THEN <<x>>
           ELSE IF StrLess(sorted[1], x)
           THEN <<sorted[1]>> \o InsertSorted(x, Tail(sorted))
           ELSE <<x>> \o sorted : x \in {x0}, sorted \in {sorted0} })

RECURSIVE SortStrings(_)
SortStrings(elems0) ==
    Only({ IF Len(elems) = 0 THEN <<>>
           ELSE InsertSorted(elems[1], SortStrings(Tail(elems))) : elems \in {elems0} })

\* fmt's %q (strconv.Quote) on the characters the model uses
RECURSIVE QuoteBody(_)
QuoteBody(s0) ==
    Only({ IF Len(s) = 0 THEN ""
           ELSE IF Len(s) = 1
           THEN (IF s = "\"" THEN "\\\""
                 ELSE IF s = "\\" THEN "\\\\"
                 ELSE IF s = "\n" THEN "\\n"
                 ELSE IF s = "\t" THEN "\\t"
                 ELSE IF s = "\r" THEN "\\r"
                 ELSE s)
           ELSE QuoteBody(SubSeq(s, 1, Len(s) \div 2))
                    \o QuoteBody(SubSeq(s, Len(s) \div 2 + 1, Len(s))) : s \in {s0} })

GoQuote(s) == "\"" \o QuoteBody(s) \o "\""

\* fmt's %d
Digits == "0123456789"

RECURSIVE NatToStr(_)
NatToStr(n0) ==
    Only({ IF n < 10 THEN SubSeq(Digits, n + 1, n + 1)
           ELSE NatToStr(n \div 10) \o SubSeq(Digits, (n % 10) + 1, (n % 10) + 1)
           : n \in {n0} })

IntToStr(n0) ==
    Only({ IF n < 0 THEN "-" \o NatToStr(0 - n) ELSE NatToStr(n) : n \in {n0} })

(***************************************************************************)
(* Package sieve: the condition compiler (convert.go)                      *)
(***************************************************************************)
\* quoteString escapes a Go string into a Sieve double-quoted string
quoteString(s) ==
    "\"" \o ReplaceAll(ReplaceAll(s, "\\", "\\\\"), "\"", "\\\"") \o "\""

\* fieldKind
fieldHeader  == "fieldHeader"
fieldAddress == "fieldAddress"
fieldBody    == "fieldBody"

\* fieldInfo
fieldInfo(k, hs) == [kind |-> k, headers |-> hs]

\* a test() that ignores the field kind
fieldTestHeader(f) == "header"

fieldTest(f) ==
    IF f.kind = fieldAddress THEN "address"
    ELSE IF f.kind = fieldHeader THEN "header"
    ELSE "header"

RECURSIVE quoteAll(_)
quoteAll(hs) ==
    IF Len(hs) = 0 THEN <<>> ELSE <<quoteString(hs[1])>> \o quoteAll(Tail(hs))

headerExpr(f) ==
    IF Len(f.headers) = 1 THEN quoteString(f.headers[1])
    ELSE "[" \o Join(quoteAll(f.headers), ", ") \o "]"

\* the prefix and suffix stripping of mapPart
stripHeaderPrefix(p0) ==
    Only({ IF HasPrefix(p, "$header_") THEN TrimPrefix(p, "$header_") ELSE p : p \in {p0} })

normalizePart(part) ==
    TrimSpace(TrimSuffix(TrimPrefix(stripHeaderPrefix(ToLower(TrimSpace(part))), "$"), ":"))

\* a field mapping without address fields: every named field is a plain header
mapPartHeaderOnly(part) ==
    Only({ IF p \in {"from", "h_from"} THEN fieldInfo(fieldHeader, <<"From">>)
           ELSE IF p \in {"to", "h_to"} THEN fieldInfo(fieldHeader, <<"To">>)
           ELSE IF p \in {"body", "message_body"} THEN fieldInfo(fieldBody, <<>>)
           ELSE fieldInfo(fieldHeader, <<IF p = "" THEN "Subject" ELSE p>>)
           : p \in {normalizePart(part)} })

mapPart(part) ==
    Only({ IF p \in {"from", "h_from"} THEN fieldInfo(fieldAddress, <<"From">>)
           ELSE IF p \in {"to", "h_to"} THEN fieldInfo(fieldAddress, <<"To">>)
           ELSE IF p \in {"subject", "h_subject"} THEN fieldInfo(fieldHeader, <<"Subject">>)
           ELSE IF p \in {"any recipient", "any_recipient", "anyrecipient"}
                THEN fieldInfo(fieldAddress, <<"To", "Cc", "Bcc">>)
           ELSE IF p \in {"reply", "reply-to", "reply_to"}
                THEN fieldInfo(fieldHeader, <<"Reply-To">>)
           ELSE IF p \in {"body", "message_body"} THEN fieldInfo(fieldBody, <<>>)
           ELSE IF p \in {"any header", "any_header", "anyheader"}
                THEN fieldInfo(fieldHeader,
                               <<"From", "To", "Cc", "Bcc", "Subject", "Reply-To">>)
           ELSE fieldInfo(fieldHeader, <<IF p = "" THEN "Subject" ELSE p>>)
           : p \in {normalizePart(part)} })

RegexMeta == ".*+?[]()|\\"

globResult(g, k) == [glob |-> g, ok |-> k]

simpleRegexToGlob(pattern0) ==
    Only({ IF pat = "" THEN globResult("", FALSE)
           ELSE IF ContainsAny(pat, RegexMeta) THEN globResult("", FALSE)
           ELSE IF HasPrefix(pat, "^") /\ HasSuffix(pat, "$") /\ Len(pat) > 2
                THEN globResult(Slice(pat, 1, Len(pat) - 1), TRUE)
           ELSE IF HasPrefix(pat, "^") /\ Len(pat) > 1
                THEN globResult(Slice(pat, 1, Len(pat)) \o "*", TRUE)
           ELSE IF HasSuffix(pat, "$") /\ Len(pat) > 1
                THEN globResult("*" \o Slice(pat, 0, Len(pat) - 1), TRUE)
           ELSE globResult("", FALSE)
           : pat \in {pattern0} })

matchResult(op, neg, pat) == [sieveOp |-> op, negative |-> neg, bodyPattern |-> pat]

\* an operator table that is looked up for an empty val as well
mapMatchAnyVal(match0, val0) ==
    Only({ IF match = "contains" THEN matchResult(":contains", FALSE, val)
           ELSE IF match \in {"does not contain", "does not contains"}
                THEN matchResult(":contains", TRUE, val)
           ELSE IF match \in {"equals", "is"} THEN matchResult(":is", FALSE, val)
           ELSE IF match \in {"does not equal", "is not"} THEN matchResult(":is", TRUE, val)
           ELSE IF match \in {"begins", "begins with"}
                THEN matchResult(":matches", FALSE, val \o "*")
           ELSE IF match \in {"does not begin", "does not begin with"}
                THEN matchResult(":matches", TRUE, val \o "*")
           ELSE IF match \in {"ends", "ends with"}
                THEN matchResult(":matches", FALSE, "*" \o val)
           ELSE IF match \in {"does not end", "does not end with"}
                THEN matchResult(":matches", TRUE, "*" \o val)
           ELSE matchResult("", FALSE, "")
           : match \in {match0}, val \in {val0} })

mapMatch(match0, val0) ==
    Only({ IF val = "" THEN matchResult("", FALSE, "")
           ELSE IF match = "contains" THEN matchResult(":contains", FALSE, val)
           ELSE IF match \in {"does not contain", "does not contains"}
                THEN matchResult(":contains", TRUE, val)
           ELSE IF match \in {"equals", "is"} THEN matchResult(":is", FALSE, val)
           ELSE IF match \in {"does not equal", "is not"} THEN matchResult(":is", TRUE, val)
           ELSE IF match \in {"begins", "begins with"}
                THEN matchResult(":matches", FALSE, val \o "*")
           ELSE IF match \in {"does not begin", "does not begin with"}
                THEN matchResult(":matches", TRUE, val \o "*")
           ELSE IF match \in {"ends", "ends with"}
                THEN matchResult(":matches", FALSE, "*" \o val)
           ELSE IF match \in {"does not end", "does not end with"}
                THEN matchResult(":matches", TRUE, "*" \o val)
           ELSE matchResult("", FALSE, "")
           : match \in {match0}, val \in {val0} })

condResult(c, b) == [cond |-> c, usesBody |-> b]

\* the test buildSingleCondition formats for a field, an operator and a pattern
testExpr(field, op, pat) ==
    IF field.kind = fieldBody
    THEN "body " \o op \o " " \o quoteString(pat)
    ELSE fieldTest(field) \o " " \o op \o " " \o headerExpr(field) \o " " \o quoteString(pat)

\* a negation that is dropped
negateNever(negative, c) == c

\* if negative { cond = "not (" + cond + ")" }
negate(negative, c) == IF negative THEN "not (" \o c \o ")" ELSE c

\* the operands of the TODO comments: r.Match and r.Val under %q
unsupportedNote(r) == GoQuote(r.Match) \o " on " \o r.Part \o " " \o GoQuote(r.Val) \o " */"

buildSingleCondition(r0) ==
    Only({ IF match = "matches_regex" \/ match = "does not match"
           THEN condResult("false /* TODO: regex/does-not-match rule ignored ("
                               \o r.Part \o " " \o GoQuote(r.Match) \o " " \o r.Val
                               \o ") */", FALSE)
           ELSE IF match = "matches"
           THEN Only({ IF g.ok
                       THEN condResult(testExpr(field, ":matches", g.glob),
                                       field.kind = fieldBody)
                       ELSE condResult("false /* TODO: unsupported match " \o note, FALSE)
                       : g \in {simpleRegexToGlob(r.Val)} })
           ELSE Only({ IF m.sieveOp = "" /\ m.bodyPattern = ""
                       THEN condResult("true /* TODO: unsupported match " \o note, FALSE)
                       ELSE condResult(negate(m.negative,
                                              testExpr(field, m.sieveOp, m.bodyPattern)),
                                       field.kind = fieldBody)
                       : m \in {mapMatch(match, r.Val)} })
           : r \in {r0},
             match \in {ToLower(TrimSpace(r0.Match))},
             field \in {mapPart(ToLower(TrimSpace(r0.Part)))},
             note \in {unsupportedNote(r0)} })

\* the join operator buildConditions chooses for a rule list
normOpts(rs0) ==
    Only({ {ToLower(TrimSpace(rs[i].Opt)) : i \in 1..Len(rs)} : rs \in {rs0} })

\* a join decided by the "and" markers alone
joinOfAnyAnd(rs) ==
    Only({ IF "and" \in opts THEN "allof" ELSE "anyof" : opts \in {normOpts(rs)} })

joinOf(rs) ==
    Only({ IF "and" \in opts /\ "or" \notin opts /\ "" \notin opts THEN "allof" ELSE "anyof"
           : opts \in {normOpts(rs)} })

\* the pretty-printing loop of buildConditions: one indented clause per line
RECURSIVE condLinesOf(_)
condLinesOf(conds0) ==
    Only({ IF Len(conds) = 0 THEN ""
           ELSE "    " \o conds[1].cond \o (IF Len(conds) > 1 THEN "," ELSE "") \o "\n"
                    \o condLinesOf(Tail(conds)) : conds \in {conds0} })

buildConditions(rs0) ==
    Only({ IF Len(rs) = 1 THEN conds[1]
           ELSE condResult(joinOf(rs) \o " (\n" \o condLinesOf(conds) \o ")",
                           \E i \in 1..Len(conds) : conds[i].usesBody)
           : rs \in {rs0},
             conds \in {[i \in 1..Len(rs0) |-> buildSingleCondition(rs0[i])]} })

(***************************************************************************)
(* Package sieve: the script generator (convert.go)                        *)
(***************************************************************************)
\* a mailbox name that is the final segment even when nothing is left of it
mailboxFromDestNoFallback(path0) ==
    Only({ IF path = "" THEN "INBOX"
           ELSE TrimPrefix(TrimSpace(IF idx # -1 THEN Slice(path, idx + 1, Len(path))
                                     ELSE path), ".")
           : path \in {path0}, idx \in {LastIndex(path0, "/")} })

mailboxFromDest(path0) ==
    Only({ IF path = "" THEN "INBOX"
           ELSE Only({ IF base = "" THEN path ELSE base
                       : base \in {TrimPrefix(TrimSpace(
                                     IF idx # -1 THEN Slice(path, idx + 1, Len(path))
                                     ELSE path), ".")} })
           : path \in {path0}, idx \in {LastIndex(path0, "/")} })

\* the element of S that has k elements of S below it
Nth(S, k) == CHOOSE x \in S : Cardinality({y \in S : StrLess(y, x)}) = k

\* the keys of a map as a sequence, in the order a range statement yields
\* them: the runtime picks the order, here the one that order encodes
RECURSIVE SetToSeq(_, _)
SetToSeq(S0, order0) ==
    Only({ IF S = {} THEN <<>>
           ELSE Only({ <<x>> \o SetToSeq(S \ {x}, order \div Cardinality(S))
                       : x \in {Nth(S, order % Cardinality(S))} })
           : S \in {S0}, order \in {order0} })

RECURSIVE goQuoteAll(_)
goQuoteAll(xs0) ==
    Only({ IF Len(xs) = 0 THEN <<>> ELSE <<GoQuote(xs[1])>> \o goQuoteAll(Tail(xs))
           : xs \in {xs0} })

\* a require line rendered in the order the map is ranged over
requireHeaderUnsorted(exts0, order) ==
    Only({ IF exts = {} THEN ""
           ELSE "require [" \o Join(goQuoteAll(SetToSeq(exts, order)), ", ")
                    \o "];\n\n" : exts \in {exts0} })

\* the require line both ConvertFilters and CombineScripts render from a set
requireHeader(exts0, order) ==
    Only({ IF exts = {} THEN ""
           ELSE "require [" \o Join(SortStrings(goQuoteAll(SetToSeq(exts, order))), ", ")
                    \o "];\n\n" : exts \in {exts0} })

\* the action kind the switch statements of ConvertFilters compare
actionKind(a) == ToLower(TrimSpace(a.Action))

\* extensions in which deliver does not count for fileinto
usedExtSaveOnly(flt, usesBody) ==
    Only({ (IF usesBody THEN {"body"} ELSE {})
             \cup (IF "save" \in kinds THEN {"fileinto"} ELSE {})
             \cup (IF "reject" \in kinds THEN {"reject"} ELSE {})
           : kinds \in {{actionKind(flt.Actions[i]) : i \in 1..Len(flt.Actions)}} })

\* the extensions an entry's actions and conditions need
usedExtOf(flt, usesBody) ==
    Only({ (IF usesBody THEN {"body"} ELSE {})
             \cup (IF "save" \in kinds \/ "deliver" \in kinds THEN {"fileinto"} ELSE {})
             \cup (IF "reject" \in kinds THEN {"reject"} ELSE {})
           : kinds \in {{actionKind(flt.Actions[i]) : i \in 1..Len(flt.Actions)}} })

\* one action statement of the if block
actionText(a0) ==
    Only({ IF action = "save"
           THEN "    fileinto " \o quoteString(mailboxFromDest(a.Dest)) \o ";\n"
                    \o "    # original path: " \o dest \o "\n"
           ELSE IF action = "deliver" THEN "    fileinto " \o dest \o ";\n"
           ELSE IF action = "reject" THEN "    reject " \o dest \o ";\n"
           ELSE IF action = "finish"
           THEN "    # finish (Exim): terminate filter processing (handled by stop)\n"
           ELSE "    # TODO: unsupported action " \o GoQuote(a.Action) \o " dest="
                    \o GoQuote(a.Dest) \o "\n"
           : a \in {a0}, action \in {actionKind(a0)}, dest \in {quoteString(a0.Dest)} })

\* the statements written last action first
RECURSIVE actionsTextReversed(_)
actionsTextReversed(as0) ==
    Only({ IF Len(as) = 0 THEN "" ELSE actionsTextReversed(Tail(as)) \o actionText(as[1])
           : as \in {as0} })

RECURSIVE actionsText(_)
actionsText(as0) ==
    Only({ IF Len(as) = 0 THEN "" ELSE actionText(as[1]) \o actionsText(Tail(as))
           : as \in {as0} })

\* a wrapping that comments the blank lines too
commentLinesAll(ls0) ==
    Only({ [i \in 1..Len(ls) |-> "// " \o ls[i]] : ls \in {ls0} })

\* the lines of a disabled filter, each commented out
RECURSIVE commentLines(_)
commentLines(ls0) ==
    Only({ IF Len(ls) = 0 THEN <<>>
           ELSE <<IF TrimSpace(ls[1]) = "" THEN "" ELSE "// " \o ls[1]>>
                    \o commentLines(Tail(ls)) : ls \in {ls0} })

\* If the filter was disabled in cPanel, keep it but comment it out
commentOutDisabled(content, enabled) ==
    IF enabled = 0
    THEN Join(<<"// NOTE: this filter was disabled in cPanel (enabled="
                    \o IntToStr(enabled) \o ")">>
                  \o commentLines(Split(content, "\n")), "\n")
    ELSE content

SieveScript(n, c) == [Name |-> n, Content |-> c]

\* the text ConvertFilters builds for an entry with no rules
noRulesContent == "// Filter has no rules; nothing to match.\n"

\* an if block that is left empty when the entry has no actions
rulesContentNoPlaceholder(flt0, order) ==
    Only({ requireHeader(usedExtOf(flt, bc.usesBody), order)
             \o "if " \o bc.cond \o " {\n"
             \o actionsText(flt.Actions)
             \o "    stop;\n"
             \o "}\n"
           : flt \in {flt0}, bc \in {buildConditions(flt0.Rules)} })

\* the text ConvertFilters builds for an entry with rules
rulesContent(flt0, order) ==
    Only({ requireHeader(usedExtOf(flt, bc.usesBody), order)
             \o "if " \o bc.cond \o " {\n"
             \o (IF Len(flt.Actions) = 0
                 THEN "    # TODO: no actions defined in original filter\n"
                 ELSE actionsText(flt.Actions))
             \o "    stop;\n"
             \o "}\n"
           : flt \in {flt0}, bc \in {buildConditions(flt0.Rules)} })

\* a loop body without the zero-rules branch
convertEntryAlwaysIf(flt, order) ==
    SieveScript(flt.Filtername, commentOutDisabled(rulesContent(flt, order), flt.Enabled))

\* the body of ConvertFilters' loop
convertEntry(flt, order) ==
    SieveScript(flt.Filtername,
                commentOutDisabled(IF Len(flt.Rules) = 0 THEN noRulesContent
                                   ELSE rulesContent(flt, order),
                                   flt.Enabled))

\* order stands for the orders in which the loop's usedExt maps are ranged over
ConvertFilters(f, order) ==
    [i \in 1..Len(f.Filter) |-> convertEntry(f.Filter[i], order)]

(***************************************************************************)
(* Package sieve: the script combiner (combine.go)                         *)
(***************************************************************************)
isRequireLine(line) == HasPrefix(TrimSpace(line), "require [")

\* the extension names between the brackets of one require line
innerTokens(inner) ==
    Only({ {TrimSet(TrimSpace(parts[i]), {"\""}) : i \in 1..Len(parts)} \ {""}
           : parts \in {Split(inner, ",")} })

\* the extension names of one require line
requireTokens(line) ==
    Only({ IF start # -1 /\ end # -1 /\ end > start
           THEN innerTokens(Slice(trimmed, start + 1, end))
           ELSE {}
           : trimmed \in {TrimSpace(line)},
             start \in {Index(TrimSpace(line), "[")},
             end \in {Index(TrimSpace(line), "]")} })

\* a filter that keeps the require lines in the body
keepAllLines(ls0) == ls0

RECURSIVE filteredLines(_)
filteredLines(ls0) ==
    Only({ IF Len(ls) = 0 THEN <<>>
           ELSE (IF isRequireLine(ls[1]) THEN <<>> ELSE <<ls[1]>>)
                    \o filteredLines(Tail(ls)) : ls \in {ls0} })

\* the body of one script once its require lines are dropped
scriptBody(sc) == TrimSpace(Join(filteredLines(Split(sc.Content, "\n")), "\n"))

\* the extension names one script requires
scriptReqs(sc) ==
    Only({ UNION {requireTokens(ls[i]) : i \in {j \in 1..Len(ls) : isRequireLine(ls[j])}}
           : ls \in {Split(sc.Content, "\n")} })

\* chunks added whatever the content
chunksOfAlways(sc, content) == <<"# Filter: " \o sc.Name, content, "">>

\* the chunks one script adds to the combined body
chunksOf(sc, content) ==
    IF content = "" THEN <<>> ELSE <<"# Filter: " \o sc.Name, content, "">>

RECURSIVE bodyChunksOf(_)
bodyChunksOf(scs0) ==
    Only({ IF Len(scs) = 0 THEN <<>>
           ELSE chunksOf(scs[1], scriptBody(scs[1])) \o bodyChunksOf(Tail(scs))
           : scs \in {scs0} })

\* order stands for the order in which reqSet is ranged over
CombineScripts(name, scs0, order) ==
    Only({ SieveScript(name,
                       requireHeader(UNION {scriptReqs(scs[i]) : i \in 1..Len(scs)},
                                     order)
                         \o (IF Len(bodyChunks) > 0 THEN Join(bodyChunks, "\n") ELSE ""))
           : scs \in {scs0}, bodyChunks \in {bodyChunksOf(scs0)} })

(***************************************************************************)
(* Package cpanel: the text-filter parser                                  *)
(***************************************************************************)
Rule(p, m, v, o) == [Part |-> p, Match |-> m, Val |-> v, Opt |-> o]
Action(a, d) == [Action |-> a, Dest |-> d]
FilterEntry(n, e, rs, as) == [Filtername |-> n, Enabled |-> e, Rules |-> rs, Actions |-> as]
Filter(es, v) == [Filter |-> es, Version |-> v]

\* the text up to the next double quote, or the error value when there is none
upToQuote(rest0, none) ==
    Only({ IF end < 0 THEN none ELSE <<Slice(rest, 0, end)>>
           : rest \in {rest0}, end \in {Index(rest0, "\"")} })

\* the quoted value of a line, in a one-element sequence, or <<>> when the
\* line holds no complete quoted value
firstQuoted(s0) ==
    Only({ IF start < 0 THEN <<>> ELSE upToQuote(Slice(s, start + 1, Len(s)), <<>>)
           : s \in {s0}, start \in {Index(s0, "\"")} })

extractFirstQuoted(s) ==
    Only({ IF Len(q) = 0 THEN "" ELSE q[1] : q \in {firstQuoted(s)} })

\* a clause whose match is the whole operator in front of the quoted value
clauseRuleWholeOperator(part, rest0, opt) ==
    Only({ IF Len(fields) = 0 \/ Len(val) = 0 THEN <<>>
           ELSE <<Rule(part, ToLower(TrimSpace(Slice(rest0, 0, Index(rest0, "\"")))),
                       val[1], opt)>>
           : fields \in {Fields(rest0)}, val \in {firstQuoted(rest0)} })

\* the part of parseConditions' loop body after the colon is found
clauseRule(part, rest0, opt) ==
    Only({ IF Len(fields) = 0 \/ Len(val) = 0 THEN <<>>
           ELSE <<Rule(part, ToLower(fields[1]), val[1], opt)>>
           : fields \in {Fields(rest0)}, val \in {firstQuoted(rest0)} })

\* one clause of parseConditions: the Rule it yields, or nothing when skipped
clauseRules(expr0, opt) ==
    Only({ IF expr = "" \/ colon < 0 THEN <<>>
           ELSE clauseRule(TrimSpace(Slice(expr, 0, colon + 1)),
                           TrimSpace(Slice(expr, colon + 1, Len(expr))), opt)
           : expr \in {expr0}, colon \in {Index(expr0, ":")} })

\* the leading "or " / "and " of a clause after the first
joinResult(o, rest) == [opt |-> o, s |-> rest]

\* a join keyword that is stripped from the first clause too
stripJoinAnyClause(s0, first) ==
    Only({ IF HasPrefix(lower, "or ")
           THEN joinResult("or", TrimSpace(Slice(s, 3, Len(s))))
           ELSE IF HasPrefix(lower, "and ")
           THEN joinResult("and", TrimSpace(Slice(s, 4, Len(s))))
           ELSE joinResult("or", s)
           : s \in {s0}, lower \in {ToLower(s0)} })

\* a join keyword that is stripped and always read as or
stripJoinAlwaysOr(s0, first) ==
    Only({ IF ~first /\ HasPrefix(lower, "or ")
           THEN joinResult("or", TrimSpace(Slice(s, 3, Len(s))))
           ELSE IF ~first /\ HasPrefix(lower, "and ")
           THEN joinResult("or", TrimSpace(Slice(s, 4, Len(s))))
           ELSE joinResult("or", s)
           : s \in {s0}, lower \in {ToLower(s0)} })

stripJoin(s0, first) ==
    Only({ IF ~first /\ HasPrefix(lower, "or ")
           THEN joinResult("or", TrimSpace(Slice(s, 3, Len(s))))
           ELSE IF ~first /\ HasPrefix(lower, "and ")
           THEN joinResult("and", TrimSpace(Slice(s, 4, Len(s))))
           ELSE joinResult("or", s)
           : s \in {s0}, lower \in {ToLower(s0)} })

\* if next >= 0 && next < cut { cut = next }
cutAt(cut0, next0) ==
    Only({ IF next >= 0 /\ next < cut THEN next ELSE cut : cut \in {cut0}, next \in {next0} })

\* where the next " or " / " and " isolates the clause
cutOf(s) ==
    Only({ cutAt(cutAt(Len(s), Index(lower, " or ")), Index(lower, " and "))
           : lower \in {ToLower(s)} })

\* the for loop of parseConditions on the text s that is left
RECURSIVE conditionLoop(_, _)
RECURSIVE conditionStep(_, _)
conditionStep(j, cut) ==
    clauseRules(TrimSpace(Slice(j.s, 0, cut)), j.opt)
      \o conditionLoop(IF cut < Len(j.s) THEN Slice(j.s, cut, Len(j.s)) ELSE "", FALSE)

conditionLoop(s0, first) ==
    Only({ IF s = "" THEN <<>>
           ELSE Only({ IF j.s = "" THEN <<>> ELSE conditionStep(j, cutOf(j.s))
                       : j \in {stripJoin(s, first)} })
           : s \in {TrimSpace(s0)} })

parseConditions(lines) == conditionLoop(Join(lines, " "), TRUE)

\* the mailbox name of deliver "\"$local_part+Name\"@$domain"
localPartName(rest0) ==
    Only({ TrimSpace(IF i >= 0 THEN Slice(rest, 0, i) ELSE rest)
           : rest \in {rest0}, i \in {IndexAny(rest0, "\"@")} })

\* the Action of a deliver line with the quoted argument arg
deliverAction(arg0) ==
    Only({ IF idx # -1
           THEN Only({ IF name # "" THEN <<Action("save", name)>> ELSE <<>>
                       : name \in {localPartName(
                                     Slice(arg, idx + Len("$local_part+"), Len(arg)))} })
           ELSE <<Action("deliver", arg)>>
           : arg \in {arg0}, idx \in {Index(arg0, "$local_part+")} })

\* one line of parseActions: the Action it yields, or nothing
lineActions(line0) ==
    Only({ IF line = "" THEN <<>>
           ELSE IF HasPrefix(lower, "finish") THEN <<Action("finish", "")>>
           ELSE IF HasPrefix(lower, "deliver ")
           THEN (IF arg = "" THEN <<>> ELSE deliverAction(arg))
           ELSE IF HasPrefix(lower, "save ")
           THEN (IF arg = "" THEN <<>> ELSE <<Action("save", arg)>>)
           ELSE <<>>
           : line \in {TrimSpace(line0)},
             lower \in {ToLower(TrimSpace(line0))},
             arg \in {extractFirstQuoted(TrimSpace(line0))} })

RECURSIVE parseActions(_)
parseActions(lines0) ==
    Only({ IF Len(lines) = 0 THEN <<>>
           ELSE lineActions(lines[1]) \o parseActions(Tail(lines))
           : lines \in {lines0} })

\* a flush that commits a block whose actions came out empty
flushEntriesAnyActions(es, name, conds, acts) ==
    IF name = "" \/ Len(conds) = 0 THEN es
    ELSE Only({ IF Len(rs) = 0 THEN es
                ELSE Append(es, FilterEntry(name, 1, rs, as))
                : rs \in {parseConditions(conds)}, as \in {parseActions(acts)} })

\* flush: the entries after the pending block is committed or discarded
flushEntries(es, name, conds, acts) ==
    IF name = "" \/ Len(conds) = 0 THEN es
    ELSE Only({ IF Len(rs) = 0 \/ Len(as) = 0 THEN es
                ELSE Append(es, FilterEntry(name, 1, rs, as))
                : rs \in {parseConditions(conds)}, as \in {parseActions(acts)} })

isBoilerplate(line0) ==
    \E line \in {line0} :
        \/ HasPrefix(line, "# Exim filter")
        \/ HasPrefix(line, "# Do not manually")
        \/ HasPrefix(line, "headers charset")
        \/ HasPrefix(line, "if not first_delivery")

(***************************************************************************)
(* Inputs                                                                  *)
(***************************************************************************)
\* all sequences over S of length at most n
RECURSIVE SeqsUpTo(_, _)
SeqsUpTo(S, n) ==
    IF n = 0 THEN {<<>>}
    ELSE UNION { {q} \cup {Append(q, x) : x \in S} : q \in SeqsUpTo(S, n - 1) }

\* all strings over the characters of S of length at most n
RECURSIVE StringsUpTo(_, _)
StringsUpTo(S, n) ==
    IF n = 0 THEN {""}
    ELSE UNION { {q} \cup {q \o c : c \in S} : q \in StringsUpTo(S, n - 1) }

MaxLines   == 4   \* lines of a generated filter file
MaxEntries == 2   \* entries of a multi-entry Filter
MaxRules   == 2   \* rules of a generated rule list
MaxActions == 2   \* actions of a generated action list
MaxScripts == 2   \* scripts handed to CombineScripts
MaxPatLen  == 3   \* characters of a generated pattern
MaxCondLines == 3 \* lines handed to parseConditions
MaxOrders  == 6   \* orders in which a map is ranged over
MaxActLines == 2  \* lines handed to parseActions

\* the choices the runtime has for the order of a range over a map: for a
\* map of up to three keys MaxOrders choices are all the orders there are
MapOrders == 0..(MaxOrders - 1)

\* bufio.MaxScanTokenSize, the buffer limit of the Scanner NewScanner returns
MaxScanTokenSize == 65536

\* s repeated 2^k times
RECURSIVE Doubled(_, _)
Doubled(s, k) == IF k = 0 THEN s ELSE Doubled(s \o s, k - 1)

\* a line that fills the Scanner's buffer before its newline is found
LongLine == Doubled("a", 16)

\* the block of the end-to-end example
NixpalBlock ==
    <<"#Nixpal", "if $header_from: contains \"foo\"", "then", "save \"Nixpal\"",
      "finish", "endif">>

\* the block of ParseFilterFile's doc comment
DocBlock ==
    <<"#Name", "if", " $header_from: contains \"foo\"",
      " or $header_subject: begins \"WHMCS\"", "then",
      " deliver \"\\\"$local_part+Nixpal\\\"@$domain\"", " finish", "endif">>

SampleFiles ==
    { NixpalBlock,
      DocBlock,
      <<"# Exim filter", "", "headers charset \"UTF-8\"">> \o NixpalBlock,
      NixpalBlock \o DocBlock,
      SubSeq(NixpalBlock, 1, 5),
      SubSeq(NixpalBlock, 1, 2),
      <<"if $header_to: is \"lost@myip.gr\"", "then", "save \"Lost\"", "endif">>
        \o NixpalBlock,
      <<"#Odd", "if $header_from: contains \"foo\"", "#Nixpal", "endif", "then",
        "#Nixpal", "if $header_to: is \"x\"", "then", "save \"Nixpal\"", "endif">>,
      NixpalBlock \o <<"#Big", "if $header_from: contains \"foo\"", LongLine>>,
      <<"#Logs", "if $header_to: is \"logs@myip.gr\"", "then",
        "deliver \"logs@myip.gr\"", "endif">>,
      NixpalBlock
        \o <<"if $header_to: is \"lost@myip.gr\"", "then", "save \"Lost\"", "endif">> }

ScanLines ==
    { "#Nixpal", "if $header_from: contains \"foo\"", "then", "save \"Nixpal\"",
      "finish", "endif" }

Files == SampleFiles \cup SeqsUpTo(ScanLines, MaxLines)

TargetNames == {"_domain", "chris"}

\* condition lines: well-formed clauses, clauses without a colon, a field or
\* a closed quote, bare join keywords and a value that holds a join keyword
ClauseLines ==
    { "$header_from: contains \"foo\"",
      "or $header_subject: begins \"WHMCS\"",
      "AND $header_to: is \"a\"",
      "or nocolon \"x\"",
      "and $h: is \"open",
      "or $h:",
      "or",
      "and $message_body: contains \"x and y\"",
      "" }

\* condition lines of text filters: clauses with and without a join keyword,
\* operators of more than one word, and a clause without a colon
TextClauses ==
    { "$header_from: contains \"foo\"",
      "and $header_subject: begins \"WHMCS\"",
      "AND $header_to: is \"a\"",
      "or $header_to: Is Not \"x\"",
      "and $header_from: does not contain \"y\"",
      "$message_body: does not match \"z\"",
      "or nocolon \"x\"" }

TextLineLists == SeqsUpTo(TextClauses, MaxCondLines)

CondLineLists == SeqsUpTo(ClauseLines, MaxCondLines)

\* the deliver line of ParseFilterFile's doc comment
DocDeliverLine == " deliver \"\\\"$local_part+Nixpal\\\"@$domain\""

\* action lines: deliver with and without the $local_part+ marker, save,
\* finish, and lines parseActions ignores
ActLines ==
    { DocDeliverLine,
      "deliver \"$local_part+Nixpal@$domain\"",
      "Deliver \"$local_part+Junk\"",
      "deliver \"$local_part+@$domain\"",
      "deliver \"logs@myip.gr\"",
      "deliver logs@myip.gr",
      "save \"Nixpal\"",
      "finish",
      "pipe \"/bin/true\"",
      "" }

ActLineLists == SeqsUpTo(ActLines, MaxActLines)

\* parts, match keywords and values of the rules of a filter.yaml
Parts ==
    { "$header_from:", "from", "$h_from:", "$header_to:", "$h_to:",
      "$header_subject:", "h_subject", "any recipient", "$any_recipient",
      "anyrecipient", "$reply", "reply-to", "$reply_to:", "$message_body", "body",
      "any header", "$any_header", "anyheader", "$header_x-spam:", "",
      "$header_:", " $Header_From: ", "$header_X-Spam:", "$List-Id:" }

TableMatches ==
    { "contains", "does not contain", "does not contains", "equals", "is",
      "does not equal", "is not", "begins", "begins with", "does not begin",
      "does not begin with", "ends", "ends with", "does not end",
      "does not end with" }

Matches ==
    TableMatches \cup
    { "matches", "matches_regex", "does not match", "", "sounds like", " Is ",
      "IS NOT" }

Vals == { "", "foo", "a@b.com", "^Suspended:", "Sus*ended", "a\"b", "a*/b", "x\ny" }

Opts == { "and", "or", "", " AND ", "xor" }

SingleRules == { Rule(p, m, v, "or") : p \in Parts, m \in Matches, v \in Vals }

JoinRules ==
    { Rule(p, "contains", "foo", o) : p \in {"$header_subject:", "$message_body"},
                                       o \in Opts }

RuleLists ==
    { <<r>> : r \in SingleRules } \cup (SeqsUpTo(JoinRules, MaxRules) \ {<<>>})

PatternChars == { "^", "$", "a", ".", "*", "+", "?", "[", "]", "(", ")", "|", "\\" }

Patterns ==
    StringsUpTo(PatternChars, MaxPatLen)
      \cup { "^Suspended:", "^Suspended:$", "Suspended:$", "Sus*ended", "Suspended:" }

\* the entries of a filter.yaml
GenRules ==
    { Rule("$header_subject:", "contains", "foo", "or"),
      Rule("$message_body", "begins", "Dear", "and") }

GenActions ==
    { Action("save", "$home/mail/myip.gr/chris/.Nixpal"),
      Action("deliver", "logs@myip.gr"),
      Action("reject", "no thanks"),
      Action("finish", ""),
      Action("pipe", "/bin/true") }

\* entries with every rule list and few action lists, and entries with every
\* action list and few rule lists
WideEntries ==
    { FilterEntry("Nixpal", e, rs, as) :
        e \in {0, 1}, rs \in SeqsUpTo(GenRules, MaxRules),
        as \in {<<>>, <<Action("save", "$home/mail/myip.gr/chris/.Nixpal")>>} }
      \cup
    { FilterEntry("Nixpal", e, rs, as) :
        e \in {0, 1},
        rs \in {<<>>, <<Rule("$header_subject:", "contains", "foo", "or")>>},
        as \in SeqsUpTo(GenActions, MaxActions) }

NarrowEntries ==
    { FilterEntry("Nixpal", 1, <<Rule("$header_from:", "contains", "foo", "or")>>,
                  <<Action("save", "Nixpal"), Action("finish", "")>>),
      FilterEntry("Spam", 1, <<Rule("$message_body", "contains", "viagra", "or")>>,
                  <<Action("save", "$home/mail/.Junk")>>),
      FilterEntry("Old", 0, <<Rule("$header_to:", "is", "old@myip.gr", "or")>>,
                  <<Action("reject", "gone")>>),
      FilterEntry("Empty", 1, <<>>, <<>>),
      FilterEntry("Two", 2, <<Rule("$header_from:", "is", "two", "or")>>,
                  <<Action("deliver", "two@myip.gr")>>),
      FilterEntry("Gap", 0, <<Rule("$header_subject:", "contains", "a\n \nb", "or")>>,
                  <<Action("finish", "")>>),
      FilterEntry("Note", 1, <<Rule("$header_subject:", "is", "x", "or")>>, <<>>),
      FilterEntry("All", 1, <<Rule("$message_body", "contains", "x", "or"),
                              Rule("$header_subject:", "is", "y", "and")>>,
                  <<Action("reject", "no"), Action(" Save ", "Junk")>>),
      FilterEntry("Regex", 1, <<Rule("$message_body", "matches_regex", "x+", "or")>>,
                  <<Action("finish", "")>>) }

YamlFilters ==
    { Filter(<<e>>, "1") : e \in WideEntries }
      \cup { Filter(es, "1") : es \in SeqsUpTo(NarrowEntries, MaxEntries) }

\* the dest strings of the actions of a filter.yaml: paths, names, and text
\* with a quote, a backslash, a newline or the end of a bracket comment
Dests ==
    { "", "$home/mail/myip.gr/chris/.Nixpal", "Nixpal", ".Junk", "mail/", ".",
      "a/ b ", "..x", "a\"b", "a\\b", "x\ny", "a*/b" }

\* the action keywords of a filter.yaml, as written
ActionKinds == { "save", " Save ", "deliver", "reject", "finish", "pipe", "x\ny" }

\* a Filter of one entry with one rule and one action
ActionFilters ==
    { Filter(<<FilterEntry("One", e, <<Rule("$header_subject:", "contains", "foo", "or")>>,
                           <<Action(k, d)>>)>>, "1")
      : e \in {0, 1}, k \in ActionKinds, d \in Dests }

\* disabled and enabled entries of a filter.yaml: with and without rules,
\* with and without extensions, and with a dest whose second line begins
\* like a require line
MixedEntries ==
    { FilterEntry("Old", 0, <<Rule("$header_to:", "is", "old@myip.gr", "or")>>,
                  <<Action("reject", "gone")>>),
      FilterEntry("Off", 0, <<Rule("$message_body", "contains", "x", "or")>>,
                  <<Action("save", "Junk")>>),
      FilterEntry("Trap", 0, <<Rule("$header_to:", "is", "x", "or")>>,
                  <<Action("reject", "x\nrequire [evil]")>>),
      FilterEntry("Void", 0, <<>>, <<>>),
      FilterEntry("Nixpal", 1, <<Rule("$header_from:", "contains", "foo", "or")>>,
                  <<Action("save", "Nixpal"), Action("finish", "")>>),
      FilterEntry("Note", 1, <<Rule("$header_subject:", "is", "x", "or")>>,
                  <<Action("finish", "")>>),
      FilterEntry("Empty", 1, <<>>, <<Action("reject", "no")>>),
      FilterEntry("Two", 2, <<Rule("$message_body", "contains", "two", "or")>>,
                  <<Action("deliver", "two@myip.gr")>>),
      FilterEntry("Loud", 1, <<Rule("$header_to:", "is", "x", "or")>>,
                  <<Action("reject", "x\nrequire [evil]")>>) }

MixedFilters == { Filter(es, "1") : es \in SeqsUpTo(MixedEntries, MaxEntries) }

\* the scripts handed to CombineScripts by a caller
ScriptContents ==
    { "",
      "require [\"fileinto\"];\n\nif address :contains \"From\" \"foo\" {\n    fileinto \"Nixpal\";\n    stop;\n}\n",
      "require [\"reject\", \"fileinto\"];\nif true {\n    stop;\n}",
      "require [\"fileinto\"];\n",
      "  require [\"body\"] ; \n\n",
      "if true {\n\n    require [\"copy\",\"body\"];\n    stop;\n}\n",
      "// require [\"fileinto\"];\n// if true { stop; }",
      "require [\n# nothing\n",
      "\n \n" }

ScriptNames == { "Nixpal", "x\nrequire [\"evil\"];" }

ScriptLists ==
    SeqsUpTo({ SieveScript(n, c) : n \in ScriptNames, c \in ScriptContents },
             MaxScripts)

(***************************************************************************)
(* The runs                                                                *)
(***************************************************************************)
NoScript == SieveScript("", "")
NoFilter == Filter(<<>>, "")
NoGlob   == globResult("", FALSE)

ParserIdle ==
    /\ file = <<>> /\ pos = 1 /\ curName = "" /\ condLines = <<>>
    /\ actionLines = <<>> /\ inIf = FALSE /\ inThen = FALSE /\ entries = <<>>
GenIdle  == filter = NoFilter /\ scripts = <<>> /\ target = "" /\ combined = NoScript
CondIdle == rules = <<>> /\ cond = "" /\ condBody = FALSE
GlobIdle == pattern = "" /\ glob = NoGlob
LoopIdle == loopS = "" /\ loopFirst = TRUE /\ loopRules = <<>> /\ actions = <<>>
NoFlags ==
    [account |-> "", cpUser |-> "", path |-> "", importSieve |-> FALSE,
     importMaildir |-> FALSE, createMailcow |-> FALSE, backupRoot |-> ""]
\* how the process ended: the exit status and the reason
Exit(code, msg) == [exit |-> code, msg |-> msg]
Running == Exit(-1, "")
CliIdle == flags = NoFlags /\ ran = <<>> /\ status = Running
McIdle ==
    /\ backupTree = <<>> /\ domainFilter = "" /\ domIdx = 1 /\ userIdx = 1
    /\ ensured = {} /\ mailboxes = {} /\ attempts = <<>> /\ pwLog = <<>> /\ logged = <<>>

\* ExportUser on a mailbox that has a text filter: ParseFilterFile opens it
Init ==
    /\ pc = "scan"
    /\ file \in Files
    /\ pos = 1 /\ curName = "" /\ condLines = <<>> /\ actionLines = <<>>
    /\ inIf = FALSE /\ inThen = FALSE /\ entries = <<>>
    /\ GenIdle /\ CondIdle /\ GlobIdle /\ LoopIdle /\ CliIdle /\ McIdle

\* a name line that starts a block wherever it stands
nameLineAnywhere(line) == HasPrefix(line, "#")

\* New filter: "#Name"
nameLine(line) == HasPrefix(line, "#") /\ ~inIf /\ ~inThen

\* an if line that starts a condition region in the action region too
ifLineAnywhere(line) == HasPrefix(line, "if") /\ ~inIf

\* Start of IF
ifLine(line) == HasPrefix(line, "if") /\ ~inIf /\ ~inThen

\* one iteration of ParseFilterFile's scanner loop
ScanLine ==
    /\ pc = "scan"
    /\ pos <= Len(file)
    /\ Len(file[pos]) < MaxScanTokenSize
    /\ pos' = pos + 1
    /\ \E line \in {TrimSpace(file[pos])},
          flushed \in {flushEntries(entries, curName, condLines, actionLines)} :
         IF line = "" \/ isBoilerplate(line)
         THEN UNCHANGED <<curName, condLines, actionLines, inIf, inThen, entries>>
         ELSE IF nameLine(line)
         THEN /\ entries' = flushed
              /\ curName' = TrimSpace(TrimPrefix(line, "#"))
              /\ condLines' = <<>> /\ actionLines' = <<>>
              /\ inIf' = FALSE /\ inThen' = FALSE
         ELSE IF ifLine(line)
         THEN /\ inIf' = TRUE
              /\ condLines' = IF TrimSpace(TrimPrefix(line, "if")) # ""
                              THEN Append(condLines, TrimSpace(TrimPrefix(line, "if")))
                              ELSE condLines
              /\ UNCHANGED <<curName, actionLines, inThen, entries>>
         ELSE IF inIf
         THEN IF HasPrefix(line, "then")
              THEN /\ inIf' = FALSE /\ inThen' = TRUE
                   /\ UNCHANGED <<curName, condLines, actionLines, entries>>
              ELSE /\ condLines' = Append(condLines, line)
                   /\ UNCHANGED <<curName, actionLines, inIf, inThen, entries>>
         ELSE IF inThen
         THEN IF HasPrefix(line, "endif")
              THEN /\ entries' = flushed
                   /\ curName' = "" /\ condLines' = <<>> /\ actionLines' = <<>>
                   /\ inIf' = FALSE /\ inThen' = FALSE
              ELSE /\ actionLines' = Append(actionLines, line)
                   /\ UNCHANGED <<curName, condLines, inIf, inThen, entries>>
         ELSE UNCHANGED <<curName, condLines, actionLines, inIf, inThen, entries>>
    /\ UNCHANGED <<pc, file, genVars, condVars, globVars, loopVars, cliVars, mcVars>>

\* scanner.Scan() stops on a line that does not fit the buffer (ErrTooLong):
\* ParseFilterFile returns sieve.Filter{} and scanner.Err()
ScanError ==
    /\ pc = "scan"
    /\ pos <= Len(file)
    /\ Len(file[pos]) >= MaxScanTokenSize
    /\ filter' = NoFilter
    /\ pc' = "failed"
    /\ UNCHANGED <<parserVars, scripts, target, combined, condVars, globVars,
                   loopVars, cliVars, mcVars>>

\* an end of input that returns the entries without the last flush
EndOfInputNoFlush ==
    /\ pc = "scan"
    /\ pos > Len(file)
    /\ filter' = Filter(entries, "text")
    /\ pc' = "loaded"
    /\ UNCHANGED <<parserVars, scripts, target, combined, condVars, globVars,
                   loopVars, cliVars, mcVars>>

\* the end of input: the last flush, and the Filter ParseFilterFile returns
EndOfInput ==
    /\ pc = "scan"
    /\ pos > Len(file)
    /\ entries' = flushEntries(entries, curName, condLines, actionLines)
    /\ curName' = "" /\ condLines' = <<>> /\ actionLines' = <<>>
    /\ inIf' = FALSE /\ inThen' = FALSE
    /\ filter' = Filter(entries', "text")
    /\ pc' = "loaded"
    /\ UNCHANGED <<file, pos, scripts, target, combined, condVars, globVars, loopVars, cliVars, mcVars>>

\* ExportUser: scripts := sieve.ConvertFilters(f)
Convert ==
    /\ pc = "loaded"
    /\ \E order \in MapOrders : scripts' = ConvertFilters(filter, order)
    /\ pc' = "converted"
    /\ UNCHANGED <<parserVars, filter, target, combined, condVars, globVars, loopVars, cliVars, mcVars>>

\* ExportUser: combined := sieve.CombineScripts(name, scripts), unless there are none
Combine ==
    /\ pc = "converted"
    /\ Len(scripts) > 0
    /\ \E name \in TargetNames, order \in MapOrders :
         /\ target' = name
         /\ combined' = CombineScripts(name, scripts, order)
    /\ pc' = "combined"
    /\ UNCHANGED <<parserVars, filter, scripts, condVars, globVars, loopVars, cliVars, mcVars>>

Next == ScanLine \/ ScanError \/ EndOfInput \/ Convert \/ Combine

Spec == Init /\ [][Next]_vars

\* ExportUser on a mailbox that has a filter.yaml: the Filter is deserialized
InitGen ==
    /\ pc = "loaded"
    /\ ParserIdle
    /\ filter \in YamlFilters
    /\ scripts = <<>> /\ target = "" /\ combined = NoScript
    /\ CondIdle /\ GlobIdle /\ LoopIdle /\ CliIdle /\ McIdle

NextGen == Convert \/ Combine

SpecGen == InitGen /\ [][NextGen]_vars

\* ExportUser on a mailbox whose filter.yaml has one entry with one action
InitAction ==
    /\ pc = "loaded"
    /\ ParserIdle
    /\ filter \in ActionFilters
    /\ scripts = <<>> /\ target = "" /\ combined = NoScript
    /\ CondIdle /\ GlobIdle /\ LoopIdle /\ CliIdle /\ McIdle

SpecAction == InitAction /\ [][NextGen]_vars

\* a caller of CombineScripts with scripts of its own
InitComb ==
    /\ pc = "scripts"
    /\ ParserIdle
    /\ filter = NoFilter
    /\ scripts \in ScriptLists
    /\ target = "" /\ combined = NoScript
    /\ CondIdle /\ GlobIdle /\ LoopIdle /\ CliIdle /\ McIdle

CallCombineScripts ==
    /\ pc = "scripts"
    /\ \E name \in TargetNames, order \in MapOrders :
         /\ target' = name
         /\ combined' = CombineScripts(name, scripts, order)
    /\ pc' = "combined"
    /\ UNCHANGED <<parserVars, filter, scripts, condVars, globVars, loopVars, cliVars, mcVars>>

NextComb == CallCombineScripts

SpecComb == InitComb /\ [][NextComb]_vars

\* buildConditions on a rule list
InitCond ==
    /\ pc = "rules"
    /\ ParserIdle /\ GenIdle
    /\ rules \in RuleLists
    /\ cond = "" /\ condBody = FALSE
    /\ GlobIdle /\ LoopIdle /\ CliIdle /\ McIdle

CallBuildConditions ==
    /\ pc = "rules"
    /\ \E r \in {buildConditions(rules)} : cond' = r.cond /\ condBody' = r.usesBody
    /\ pc' = "built"
    /\ UNCHANGED <<parserVars, genVars, rules, globVars, loopVars, cliVars, mcVars>>

NextCond == CallBuildConditions

SpecCond == InitCond /\ [][NextCond]_vars

\* ExportUser on a filter.yaml that mixes disabled and enabled entries
InitMixed ==
    /\ pc = "loaded" /\ ParserIdle /\ filter \in MixedFilters
    /\ scripts = <<>> /\ target = "" /\ combined = NoScript
    /\ CondIdle /\ GlobIdle /\ LoopIdle /\ CliIdle /\ McIdle

SpecMixed == InitMixed /\ [][NextGen]_vars

\* the compiler from either entry: the rules of an entry, or a Filter of one
\* entry with one action
InitInert == InitCond \/ InitAction

NextInert == NextCond \/ NextGen

SpecInert == InitInert /\ [][NextInert]_vars

\* parseConditions on the condition lines of a block, one loop iteration a step
InitParse ==
    /\ pc = "conds"
    /\ file = <<>> /\ pos = 1 /\ curName = ""
    /\ condLines \in CondLineLists
    /\ actionLines = <<>> /\ inIf = FALSE /\ inThen = FALSE /\ entries = <<>>
    /\ GenIdle /\ CondIdle /\ GlobIdle /\ LoopIdle /\ CliIdle /\ McIdle

\* parseConditions up to its for loop
EnterLoop ==
    /\ pc = "conds"
    /\ \E joined \in {TrimSpace(Join(condLines, " "))} :
         /\ loopS' = joined
         /\ pc' = IF joined = "" THEN "parsed" ELSE "loop"
    /\ loopFirst' = TRUE
    /\ loopRules' = <<>>
    /\ UNCHANGED <<parserVars, genVars, condVars, globVars, actions, cliVars, mcVars>>

\* one iteration of parseConditions' for loop, or the break that ends it
LoopIteration ==
    /\ pc = "loop"
    /\ \E trimmed \in {TrimSpace(loopS)} :
         IF trimmed = ""
         THEN /\ loopS' = trimmed /\ pc' = "parsed"
              /\ UNCHANGED <<loopFirst, loopRules>>
         ELSE \E j \in {stripJoin(trimmed, loopFirst)} :
                /\ loopFirst' = FALSE
                /\ IF j.s = ""
                   THEN /\ loopS' = j.s /\ pc' = "parsed"
                        /\ UNCHANGED loopRules
                   ELSE \E cut \in {cutOf(j.s)} :
                          /\ loopS' = IF cut < Len(j.s)
                                      THEN Slice(j.s, cut, Len(j.s)) ELSE ""
                          /\ loopRules' = loopRules
                                \o clauseRules(TrimSpace(Slice(j.s, 0, cut)), j.opt)
                          /\ pc' = "loop"
    /\ UNCHANGED <<parserVars, genVars, condVars, globVars, actions, cliVars, mcVars>>

NextParse == EnterLoop \/ LoopIteration

SpecParse == InitParse /\ [][NextParse]_vars

\* the conditions of a text filter, from parseConditions to buildConditions:
\* the block has a name and one action line, so flush keeps it when it has
\* a rule
InitText ==
    /\ pc = "conds"
    /\ file = <<>> /\ pos = 1 /\ curName = "Text"
    /\ condLines \in TextLineLists
    /\ actionLines = <<"finish">> /\ inIf = FALSE /\ inThen = FALSE /\ entries = <<>>
    /\ GenIdle /\ CondIdle /\ GlobIdle /\ LoopIdle /\ CliIdle /\ McIdle

\* ConvertFilters calls buildConditions on the rules flush has put in the entry
CompileParsed ==
    /\ pc = "parsed"
    /\ Len(loopRules) > 0 /\ Len(parseActions(actionLines)) > 0
    /\ rules' = loopRules
    /\ \E r \in {buildConditions(loopRules)} : cond' = r.cond /\ condBody' = r.usesBody
    /\ pc' = "built"
    /\ UNCHANGED <<parserVars, genVars, globVars, loopVars, cliVars, mcVars>>

NextText == EnterLoop \/ LoopIteration \/ CompileParsed

SpecText == InitText /\ [][NextText]_vars

\* the engine from either entry: a filter file, or the condition lines of a
\* block.  The program is sequential, each step is the next statement of the
\* one goroutine, hence a step that is enabled is taken.
InitTotal == Init \/ InitParse

NextTotal == Next \/ NextParse

SpecTotal == InitTotal /\ [][NextTotal]_vars /\ WF_vars(NextTotal)

\* main: the values the flag package stores for a command line
CommandLines ==
    [account : {"", "myipgr"}, cpUser : {"", "myipgr"}, path : {"", "filter.yaml"},
     importSieve : BOOLEAN, importMaildir : BOOLEAN, createMailcow : BOOLEAN,
     backupRoot : {"", "./backup/myipgr"}]

\* Make -account act as a shortcut for -cpanel-user
withAlias(f) ==
    IF f.cpUser = "" /\ f.account # "" THEN [f EXCEPT !.cpUser = f.account] ELSE f

modeExportUser(f) == f.cpUser # ""
modeSingleFile(f) == f.path # ""

\* a count that leaves the mailcow mode out
activeModesNoMailcow(f) ==
    (IF modeExportUser(f) THEN 1 ELSE 0) + (IF modeSingleFile(f) THEN 1 ELSE 0)
      + (IF f.importSieve THEN 1 ELSE 0) + (IF f.importMaildir THEN 1 ELSE 0)

activeModes(f) ==
    (IF modeExportUser(f) THEN 1 ELSE 0) + (IF modeSingleFile(f) THEN 1 ELSE 0)
      + (IF f.importSieve THEN 1 ELSE 0) + (IF f.importMaildir THEN 1 ELSE 0)
      + (IF f.createMailcow THEN 1 ELSE 0)

\* the ways a mode's block can end: -backup missing, the config or the
\* client not set up, the handler failing, the handler returning
BlockEnds(f, needsBackup) ==
    IF needsBackup /\ f.backupRoot = "" THEN {Exit(1, "-backup is required")}
    ELSE (IF needsBackup THEN {Exit(1, "Cannot load config")} ELSE {})
           \cup {Exit(1, "handler failed"), Exit(0, "")}

InitCli ==
    /\ pc = "main"
    /\ ParserIdle /\ GenIdle /\ CondIdle /\ GlobIdle /\ LoopIdle
    /\ flags \in CommandLines
    /\ ran = <<>> /\ status = Running
    /\ McIdle

\* main up to the mode blocks: the alias, the usage exit, the mixed-modes abort
DecideMode ==
    /\ pc = "main"
    /\ \E f \in {withAlias(flags)} :
         /\ flags' = f
         /\ IF activeModes(f) = 0
            THEN status' = Exit(1, "usage") /\ pc' = "exited"
            ELSE IF activeModes(f) > 1
            THEN status' = Exit(1, "Only one of") /\ pc' = "exited"
            ELSE status' = status /\ pc' = "modes"
    /\ UNCHANGED <<parserVars, genVars, condVars, globVars, loopVars, ran, mcVars>>

\* main: the chain of mode blocks, each ending the process
RunMode ==
    /\ pc = "modes"
    /\ pc' = "exited"
    /\ IF flags.importSieve
       THEN ran' = Append(ran, "ImportSieve") /\ status' \in BlockEnds(flags, TRUE)
       ELSE IF flags.importMaildir
       THEN ran' = Append(ran, "ImportMaildir") /\ status' \in BlockEnds(flags, TRUE)
       ELSE IF flags.createMailcow
       THEN ran' = Append(ran, "Mailcow") /\ status' \in BlockEnds(flags, TRUE)
       ELSE IF modeExportUser(flags)
       THEN /\ ran' = Append(ran, "ExportUser")
            /\ IF modeSingleFile(flags)
               THEN status' = Exit(1, "cannot be combined with -path")
               ELSE status' \in BlockEnds(flags, FALSE)
       ELSE IF modeSingleFile(flags)
       THEN ran' = Append(ran, "SingleFile") /\ status' \in BlockEnds(flags, FALSE)
       ELSE ran' = ran /\ status' = Exit(1, "No valid mode selected")
    /\ UNCHANGED <<parserVars, genVars, condVars, globVars, loopVars, flags, mcVars>>

NextCli == DecideMode \/ RunMode

SpecCli == InitCli /\ [][NextCli]_vars

\* parseActions on the action lines of a block
InitActs ==
    /\ pc = "acts"
    /\ file = <<>> /\ pos = 1 /\ curName = "" /\ condLines = <<>>
    /\ actionLines \in ActLineLists
    /\ inIf = FALSE /\ inThen = FALSE /\ entries = <<>>
    /\ GenIdle /\ CondIdle /\ GlobIdle /\ LoopIdle /\ CliIdle /\ McIdle

\* flush: actions := parseActions(actionLines)
CallParseActions ==
    /\ pc = "acts"
    /\ actions' = parseActions(actionLines)
    /\ pc' = "actsDone"
    /\ UNCHANGED <<parserVars, genVars, condVars, globVars, loopS, loopFirst,
                   loopRules, cliVars, mcVars>>

NextActs == CallParseActions

SpecActs == InitActs /\ [][NextActs]_vars

\* simpleRegexToGlob on a pattern
InitGlob ==
    /\ pc = "pattern"
    /\ ParserIdle /\ GenIdle /\ CondIdle
    /\ pattern \in Patterns
    /\ glob = NoGlob
    /\ LoopIdle /\ CliIdle /\ McIdle

CallSimpleRegexToGlob ==
    /\ pc = "pattern"
    /\ glob' = simpleRegexToGlob(pattern)
    /\ pc' = "globbed"
    /\ UNCHANGED <<parserVars, genVars, condVars, pattern, loopVars, cliVars, mcVars>>

NextGlob == CallSimpleRegexToGlob

SpecGlob == InitGlob /\ [][NextGlob]_vars

(***************************************************************************)
(* Package mailcow                                                         *)
(***************************************************************************)
\* the Client of NewClientFromConfig
Client == [apiURL |-> "https://mail.example.com", quotaMB |-> 10240]

\* what postJSON returns for a request: the transport error, the HTTP
\* status, and the type and msg of the first object of the JSON body (type
\* "" for a body parseMailcowResponse does not understand)
Answer(e, st, ty, msg) == [err |-> e, status |-> st, type |-> ty, msg |-> msg]

ApiAnswers ==
    { Answer(TRUE, 0, "", ""),
      Answer(FALSE, 500, "", ""),
      Answer(FALSE, 200, "", ""),
      Answer(FALSE, 200, "success", "mailbox_added"),
      Answer(FALSE, 200, "danger", "object_exists"),
      Answer(FALSE, 200, "error", "mailbox_quota_exceeds_domain_quota"),
      Answer(FALSE, 200, "danger", "access_denied"),
      Answer(FALSE, 200, "info", "queued") }

\* EnsureDomain returns an error
EnsureDomainFails(a0) ==
    \E a \in {a0} :
        \/ a.err
        \/ a.status \div 100 # 2
        \/ a.type \in {"danger", "error"} /\ ~Contains(a.msg, "exist")

\* CreateMailbox returns an error
CreateMailboxFails(a0) ==
    \E a \in {a0} :
        \/ a.err
        \/ a.status \div 100 # 2
        \/ a.type \in {"danger", "error"} /\ ~Contains(a.msg, "exist")

\* the mailcow server on add/mailbox: it answers success only for a mailbox
\* it had not, and then has it with the password sent; it answers exists
\* only for a mailbox it has
ServerHas(email) == \E m \in mailboxes : m[1] = email

AnswersFor(email) ==
    { a \in ApiAnswers :
        /\ a.type = "success" => ~ServerHas(email)
        /\ Contains(a.msg, "exist") => ServerHas(email) }

\* the entries of os.ReadDir: a domain directory and a user directory
DomainDir(n, d, r, us) == [name |-> n, isDir |-> d, readable |-> r, users |-> us]
UserDir(n, d, fs) == [name |-> n, isDir |-> d, files |-> fs]

\* os.Stat finds <user>.sieve, filter.yaml or filter in the user directory
hasFilters(ue) ==
    \/ (ue.name \o ".sieve") \in ue.files
    \/ "filter.yaml" \in ue.files
    \/ "filter" \in ue.files

\* the user directories that are skipped
skipsUser(ue) ==
    \/ ~ue.isDir
    \/ HasPrefix(ue.name, "@") \/ HasPrefix(ue.name, "_")
    \/ ~hasFilters(ue)

\* the passwords GeneratePassword returns, "" standing for its error
Passwords == {"pw1", "pw2"}

\* time.Now().UTC().Format(time.RFC3339) of the run's clock
Now == "2026-01-02T15:04:05Z"

EmailOf(user, domain) == user \o "@" \o domain

\* the line of mailcow_mailboxes.log, behind the time stamp of the logger
PwLine(domain, user, pw) ==
    Join(<<Now, domain, user, EmailOf(user, domain), pw>>, "; ")

CreatedLine(email, pw) ==
    "mailcow: created mailbox " \o email \o " (quota=" \o IntToStr(Client.quotaMB)
      \o "MB, password=" \o pw \o ")"

\* backup trees as os.ReadDir lists them, sorted by name
MyipUsers ==
    <<UserDir("@pwcache", TRUE, {}), UserDir("_domain.filter", FALSE, {}),
      UserDir("bob", TRUE, {"cur"}),
      UserDir("chris", TRUE, {"chris.sieve", "filter.yaml"})>>

BackupTrees ==
    { <<>>,
      <<DomainDir("mailcow_mailboxes.log", FALSE, TRUE, <<>>),
        DomainDir("myip.gr", TRUE, TRUE, MyipUsers),
        DomainDir("x.org", TRUE, TRUE, <<UserDir("ann", TRUE, {"filter"})>>)>>,
      <<DomainDir("myip.gr", TRUE, FALSE, <<>>)>>,
      <<DomainDir("myip.gr", TRUE, TRUE,
                  <<UserDir("chris", TRUE, {"filter"}),
                    UserDir("dora", TRUE, {"dora.sieve"})>>)>> }

DomainFilters == {"", "myip.gr"}

\* the mailboxes the server has before the run
ServerStates == { {}, {<<"chris@myip.gr", "old">>} }

\* main: mailcow.CreateMailboxesFromBackup(client, *backupRoot, *domain, nil)
InitMailcow ==
    /\ pc = "mailcow"
    /\ ParserIdle /\ GenIdle /\ CondIdle /\ GlobIdle /\ LoopIdle /\ CliIdle
    /\ backupTree \in BackupTrees
    /\ domainFilter \in DomainFilters
    /\ mailboxes \in ServerStates
    /\ domIdx = 1 /\ userIdx = 1
    /\ ensured = {} /\ attempts = <<>> /\ pwLog = <<>> /\ logged = <<>>

\* CreateMailboxesFromBackup up to its loop: os.ReadDir of the root and the
\* opening of the password log, either of which can fail
OpenBackup ==
    /\ pc = "mailcow"
    /\ \E readOk \in BOOLEAN, openOk \in BOOLEAN :
         pc' = IF readOk /\ openOk THEN "domains" ELSE "mcFailed"
    /\ UNCHANGED <<parserVars, genVars, condVars, globVars, loopVars, cliVars, mcVars>>

\* one iteration of the loop over the entries of the root
DomainStep ==
    /\ pc = "domains"
    /\ domIdx <= Len(backupTree)
    /\ \E ent \in {backupTree[domIdx]}, a \in ApiAnswers :
         IF ~ent.isDir \/ (domainFilter # "" /\ ent.name # domainFilter)
         THEN /\ domIdx' = domIdx + 1
              /\ UNCHANGED <<pc, userIdx, ensured, logged>>
         ELSE IF EnsureDomainFails(a)
         THEN /\ logged' = Append(logged, "mailcow: failed to ensure domain " \o ent.name)
              /\ domIdx' = domIdx + 1
              /\ UNCHANGED <<pc, userIdx, ensured>>
         ELSE IF ~ent.readable
         THEN /\ ensured' = ensured \cup {ent.name}
              /\ logged' = Append(logged, "mailcow: read dir " \o ent.name)
              /\ domIdx' = domIdx + 1
              /\ UNCHANGED <<pc, userIdx>>
         ELSE /\ ensured' = ensured \cup {ent.name}
              /\ pc' = "users"
              /\ userIdx' = 1
              /\ UNCHANGED <<domIdx, logged>>
    /\ UNCHANGED <<parserVars, genVars, condVars, globVars, loopVars, cliVars,
                   backupTree, domainFilter, mailboxes, attempts, pwLog>>

\* a call of CreateMailbox and what the server answered
Attempt(user, domain, pw, a) == [user |-> user, domain |-> domain, pw |-> pw, answer |-> a]

\* one iteration of the loop over the entries of a domain directory, or its end
UserStep ==
    /\ pc = "users"
    /\ \E dom \in {backupTree[domIdx]} :
         IF userIdx > Len(dom.users)
         THEN /\ pc' = "domains"
              /\ domIdx' = domIdx + 1
              /\ UNCHANGED <<userIdx, mailboxes, attempts, pwLog, logged>>
         ELSE \E ue \in {dom.users[userIdx]}, email \in {EmailOf(dom.users[userIdx].name, dom.name)} :
                /\ userIdx' = userIdx + 1
                /\ UNCHANGED <<pc, domIdx>>
                /\ IF skipsUser(ue)
                   THEN UNCHANGED <<mailboxes, attempts, pwLog, logged>>
                   ELSE \E pw \in Passwords \cup {""} :
                          IF pw = ""
                          THEN /\ logged' = Append(logged, "mailcow: generate password for " \o email)
                               /\ UNCHANGED <<mailboxes, attempts, pwLog>>
                          ELSE \E a \in AnswersFor(email) :
                                 /\ attempts' = Append(attempts, Attempt(ue.name, dom.name, pw, a))
                                 /\ mailboxes' = IF a.type = "success"
                                                 THEN mailboxes \cup {<<email, pw>>}
                                                 ELSE mailboxes
                                 /\ IF CreateMailboxFails(a)
                                    THEN /\ logged' = Append(logged, "mailcow: create mailbox " \o email)
                                         /\ UNCHANGED pwLog
                                    ELSE /\ logged' = Append(logged, CreatedLine(email, pw))
                                         /\ pwLog' = Append(pwLog, PwLine(dom.name, ue.name, pw))
    /\ UNCHANGED <<parserVars, genVars, condVars, globVars, loopVars, cliVars,
                   backupTree, domainFilter, ensured>>

\* the loop is over: CreateMailboxesFromBackup returns nil
ReturnMailcow ==
    /\ pc = "domains"
    /\ domIdx > Len(backupTree)
    /\ pc' = "mcDone"
    /\ UNCHANGED <<parserVars, genVars, condVars, globVars, loopVars, cliVars, mcVars>>

NextMailcow == OpenBackup \/ DomainStep \/ UserStep \/ ReturnMailcow

SpecMailcow == InitMailcow /\ [][NextMailcow]_vars

(***************************************************************************)
(* Properties                                                              *)
(***************************************************************************)
Converted == pc \in {"converted", "combined"}

\* the text has a line equal to l
HasLine(text, l) ==
    \E ls \in {Split(text, "\n")} : \E i \in 1..Len(ls) : ls[i] = l

\* C1 (as stated): the block #Nixpal / if $header_from: contains "foo" / then /
\* save "Nixpal" / finish / endif, parsed by ParseFilterFile and compiled by
\* ConvertFilters, gives one script that contains require ["fileinto"];, the
\* line if header :contains "From" "foo" {, fileinto "Nixpal"; and stop;.
C1_HeaderTestAsStated ==
    (file = NixpalBlock /\ Converted) =>
        /\ Len(scripts) = 1
        /\ Contains(scripts[1].Content, "require [\"fileinto\"];")
        /\ HasLine(scripts[1].Content, "if header :contains \"From\" \"foo\" {")
        /\ Contains(scripts[1].Content, "fileinto \"Nixpal\";")
        /\ Contains(scripts[1].Content, "stop;")

\* C1 (amended): the same block gives one script, named Nixpal, that contains
\* require ["fileinto"];, the line if address :contains "From" "foo" {,
\* fileinto "Nixpal"; and stop;. The From field is an address field, so the
\* test is an address test.
C1_NixpalEndToEnd ==
    (file = NixpalBlock /\ Converted) =>
        /\ Len(scripts) = 1
        /\ scripts[1].Name = "Nixpal"
        /\ HasPrefix(scripts[1].Content, "require [\"fileinto\"];\n")
        /\ HasLine(scripts[1].Content, "if address :contains \"From\" \"foo\" {")
        /\ HasLine(scripts[1].Content, "    fileinto \"Nixpal\";")
        /\ HasLine(scripts[1].Content, "    stop;")

C1_Witness ==
    /\ file = NixpalBlock
    /\ pc = "converted"
    /\ Len(filter.Filter) = 1
    /\ Len(scripts) = 1

\* C2: for every FilterEntry with zero rules, whatever its actions and its
\* enabled flag, the script ConvertFilters generates has no if block and no
\* require line.
C2_NoRulesNoIfNoRequire ==
    Converted =>
        \A i \in 1..Len(scripts) :
            Len(filter.Filter[i].Rules) = 0 =>
                /\ ~Contains(scripts[i].Content, "require")
                /\ ~Contains(scripts[i].Content, "if ")
                /\ ~Contains(scripts[i].Content, "{")

C2_Witness ==
    /\ pc = "converted"
    /\ \E i \in 1..Len(scripts) :
         /\ Len(filter.Filter[i].Rules) = 0
         /\ Len(filter.Filter[i].Actions) = 2
         /\ filter.Filter[i].Enabled = 0
         /\ scripts[i].Content # ""

\* the content ConvertFilters has built for an entry before the enabled flag
\* is looked at
Unwrapped(flt) == IF Len(flt.Rules) = 0 THEN noRulesContent ELSE rulesContent(flt, 0)

DisabledNote == "// NOTE: this filter was disabled in cPanel (enabled=0)"

\* ls is the explanatory line followed by the lines os, each non-blank one
\* behind the comment prefix and each blank one left blank
WrappedLines(ls, os) ==
    /\ Len(ls) = Len(os) + 1
    /\ ls[1] = DisabledNote
    /\ \A j \in 1..Len(os) :
         ls[j + 1] = IF TrimSpace(os[j]) = "" THEN "" ELSE "// " \o os[j]
    /\ \A j \in 1..Len(ls) : ls[j] = "" \/ HasPrefix(ls[j], "// ")
    /\ Cardinality({j \in 1..Len(ls) : HasPrefix(ls[j], "// NOTE: ")}) = 1

\* C3: for every FilterEntry whose enabled flag is 0, every non-empty line of
\* the generated script carries the comment prefix, the blank lines of the
\* original content stay blank, and the content is preceded by exactly one
\* explanatory comment line that notes the enabled flag; the content of an entry
\* with any other enabled flag is not wrapped.
C3_DisabledIsCommentedOut ==
    Converted =>
        \A i \in 1..Len(scripts) :
            \E flt \in {filter.Filter[i]} :
                IF flt.Enabled = 0
                THEN WrappedLines(Split(scripts[i].Content, "\n"),
                                  Split(Unwrapped(flt), "\n"))
                ELSE /\ scripts[i].Content = Unwrapped(flt)
                     /\ ~Contains(scripts[i].Content, "// NOTE: ")

C3_Witness ==
    /\ pc = "converted"
    /\ \E i \in 1..Len(scripts) :
         /\ filter.Filter[i].Enabled = 0
         /\ Len(filter.Filter[i].Rules) > 0
         /\ Len(filter.Filter[i].Actions) > 0
         /\ HasLine(scripts[i].Content, "")
         /\ HasLine(scripts[i].Content, "// if address :is \"To\" \"old@myip.gr\" {")
    /\ \E i \in 1..Len(scripts) : filter.Filter[i].Enabled = 2

\* every line of the text is blank or a comment
CommentOnly(text) ==
    \E ls \in {Split(text, "\n")} :
        \A j \in 1..Len(ls) :
            \/ TrimSpace(ls[j]) = ""
            \/ HasPrefix(TrimSpace(ls[j]), "//")
            \/ HasPrefix(TrimSpace(ls[j]), "#")

\* C4 (as stated): for every FilterEntry with zero rules or zero actions
\* ConvertFilters produces a non-empty script that is a comment-only stub and
\* never holds a runnable if block.
C4_StubAsStated ==
    Converted =>
        \A i \in 1..Len(scripts) :
            (Len(filter.Filter[i].Rules) = 0 \/ Len(filter.Filter[i].Actions) = 0) =>
                /\ scripts[i].Content # ""
                /\ CommentOnly(scripts[i].Content)

\* the last lines of the if block of an entry without actions, behind prefix p
PlaceholderBlock(ls, p) ==
    /\ Len(ls) >= 5
    /\ \E j \in 1..(Len(ls) - 4) : HasPrefix(ls[j], p \o "if ")
    /\ HasSuffix(ls[Len(ls) - 4], " {")
    /\ SubSeq(ls, Len(ls) - 3, Len(ls)) =
         << p \o "    # TODO: no actions defined in original filter",
            p \o "    stop;",
            p \o "}",
            "" >>

\* C4 (amended): for every FilterEntry with zero rules or zero actions
\* ConvertFilters produces a non-empty script. With zero rules it is a
\* comment-only stub. With rules and zero actions it is an if block on the
\* entry's condition whose body holds only a placeholder comment and stop;,
\* with no fileinto or reject statement; it is runnable unless the entry is
\* disabled.
C4_StubOrPlaceholderBlock ==
    Converted =>
        \A i \in 1..Len(scripts) :
            \E flt \in {filter.Filter[i]}, text \in {scripts[i].Content} :
                /\ Len(flt.Rules) = 0 =>
                     /\ text # ""
                     /\ \E ls \in {Split(text, "\n")} :
                          \A j \in 1..Len(ls) : ls[j] = "" \/ HasPrefix(ls[j], "//")
                /\ (Len(flt.Rules) > 0 /\ Len(flt.Actions) = 0) =>
                     /\ PlaceholderBlock(Split(text, "\n"),
                                         IF flt.Enabled = 0 THEN "// " ELSE "")
                     /\ ~Contains(text, "fileinto")
                     /\ ~Contains(text, "reject")

C4_Witness ==
    /\ pc = "converted"
    /\ \E i \in 1..Len(scripts) :
         /\ Len(filter.Filter[i].Rules) = 1
         /\ Len(filter.Filter[i].Actions) = 0
         /\ filter.Filter[i].Enabled = 1
         /\ HasLine(scripts[i].Content, "    stop;")
    /\ \E i \in 1..Len(scripts) :
         /\ Len(filter.Filter[i].Rules) = 0
         /\ Len(filter.Filter[i].Actions) = 0

Built == pc = "built"

\* the join markers of the rules, compared as buildConditions compares them:
\* trimmed and in lower case
Markers(rs) == {ToLower(TrimSpace(rs[i].Opt)) : i \in 1..Len(rs)}

\* C5: for every rule list of length >= 2 buildConditions applies one join
\* operator to the whole list: allof if and only if at least one rule has the
\* marker "and" and no rule has the marker "or" or an empty marker, anyof
\* otherwise. Rules marked [or, and] compile to anyof (...), never allof (...).
C5_OneGlobalJoin ==
    (Built /\ Len(rules) >= 2) =>
        \E ms \in {Markers(rules)} :
            /\ HasPrefix(cond, "allof (\n") \/ HasPrefix(cond, "anyof (\n")
            /\ HasPrefix(cond, "allof (\n")
                 <=> ("and" \in ms /\ "or" \notin ms /\ "" \notin ms)
            /\ (rules[1].Opt = "or" /\ rules[2].Opt = "and" /\ Len(rules) = 2)
                 => HasPrefix(cond, "anyof (\n")

C5_Witness ==
    /\ Built
    /\ Len(rules) = 2
    /\ rules[1].Opt = "or"
    /\ rules[2].Opt = "and"
    /\ HasPrefix(cond, "anyof (")

\* the rule has a keyword of the match-operator table and a value
TableRule(r) == r.Match \in TableMatches /\ r.Val # ""

BodyParts == {"body", "message_body"}

\* the condition without the not ( ... ) around it
Unnegated(c) ==
    IF HasPrefix(c, "not (") /\ HasSuffix(c, ")") THEN Slice(c, 5, Len(c) - 1) ELSE c

\* C6 (as stated): for every rule with a supported operator and a non-empty
\* val the test is an address test exactly when the normalized part is one of
\* from, to, any_recipient, and a header test for every other non-body field.
C6_AddressKindAsStated ==
    (Built /\ Len(rules) = 1 /\ TableRule(rules[1])) =>
        \E p \in {normalizePart(rules[1].Part)}, t \in {Unnegated(cond)} :
            p \notin BodyParts =>
                IF p \in {"from", "to", "any_recipient"}
                THEN HasPrefix(t, "address ")
                ELSE HasPrefix(t, "header ")

\* the normalized parts mapPart takes for an address field
AddressParts ==
    {"from", "h_from", "to", "h_to", "any recipient", "any_recipient", "anyrecipient"}

\* C6 (amended): for every rule with a supported operator and a non-empty val
\* the test is an address test exactly when the normalized part is one of
\* from, h_from, to, h_to, any recipient, any_recipient, anyrecipient, and a
\* header test for every other non-body field; the rule {$header_from:, is,
\* a@b.com} compiles to address :is "From" "a@b.com".
C6_AddressKind ==
    (Built /\ Len(rules) = 1 /\ TableRule(rules[1])) =>
        \E r \in {rules[1]}, p \in {normalizePart(rules[1].Part)},
           t \in {Unnegated(cond)} :
            /\ p \notin BodyParts =>
                 IF p \in AddressParts
                 THEN HasPrefix(t, "address ") /\ ~HasPrefix(t, "header ")
                 ELSE HasPrefix(t, "header ") /\ ~HasPrefix(t, "address ")
            /\ (r.Part = "$header_from:" /\ r.Match = "is" /\ r.Val = "a@b.com")
                 => cond = "address :is \"From\" \"a@b.com\""

C6_Witness ==
    /\ Built
    /\ rules = <<Rule("$header_from:", "is", "a@b.com", "or")>>
    /\ cond = "address :is \"From\" \"a@b.com\""

\* the match-operator table: comparator, negation and pattern of a keyword
TableComparator(m) ==
    IF m \in {"contains", "does not contain", "does not contains"} THEN ":contains"
    ELSE IF m \in {"equals", "is", "does not equal", "is not"} THEN ":is"
    ELSE ":matches"

TableNegated(m) ==
    m \in {"does not contain", "does not contains", "does not equal", "is not",
           "does not begin", "does not begin with", "does not end",
           "does not end with"}

TablePattern(m, v) ==
    IF m \in {"begins", "begins with", "does not begin", "does not begin with"}
    THEN v \o "*"
    ELSE IF m \in {"ends", "ends with", "does not end", "does not end with"}
    THEN "*" \o v
    ELSE v

\* C7: for every keyword of the match-operator table and every non-empty val
\* buildSingleCondition emits the comparator, the negation and the pattern of
\* the table; a negated keyword gives the same test inside not ( ... ); this
\* holds for body fields and for header and address fields.
C7_MatchOperatorTable ==
    (Built /\ Len(rules) = 1 /\ TableRule(rules[1])) =>
        \E m \in {rules[1].Match}, p \in {normalizePart(rules[1].Part)},
           t \in {Unnegated(cond)},
           q \in {quoteString(TablePattern(rules[1].Match, rules[1].Val))} :
            /\ TableNegated(m) <=> (HasPrefix(cond, "not (") /\ HasSuffix(cond, ")"))
            /\ IF p \in BodyParts
               THEN t = "body " \o TableComparator(m) \o " " \o q /\ condBody
               ELSE /\ \/ HasPrefix(t, "address " \o TableComparator(m) \o " ")
                       \/ HasPrefix(t, "header " \o TableComparator(m) \o " ")
                    /\ HasSuffix(t, " " \o q)
                    /\ ~condBody

C7_Witness ==
    /\ Built
    /\ rules = <<Rule("$message_body", "does not begin with", "a\"b", "or")>>
    /\ cond = "not (body :matches \"a\\\"b*\")"

Globbed == pc = "globbed"

\* C8: simpleRegexToGlob rejects a pattern that holds one of . * + ? [ ] ( ) | \
\* and otherwise reduces ^X$ to X, ^X to X* and X$ to *X, and rejects every
\* other pattern, the empty one and one without an anchor included.
C8_GlobReduction ==
    Globbed =>
        \E n \in {Len(pattern)} :
            IF ContainsAny(pattern, ".*+?[]()|\\") THEN ~glob.ok
            ELSE IF n >= 2 /\ HasPrefix(pattern, "^") /\ HasSuffix(pattern, "$")
            THEN glob.ok /\ glob.glob = SubSeq(pattern, 2, n - 1)
            ELSE IF HasPrefix(pattern, "^")
            THEN glob.ok /\ glob.glob = SubSeq(pattern, 2, n) \o "*"
            ELSE IF HasSuffix(pattern, "$")
            THEN glob.ok /\ glob.glob = "*" \o SubSeq(pattern, 1, n - 1)
            ELSE ~glob.ok

Combined == pc = "combined"

\* no script name holds a newline
PlainNames == \A i \in 1..Len(scripts) : ~Contains(scripts[i].Name, "\n")

\* the extension tokens of the require lines of all the scripts
AllTokens == UNION {scriptReqs(scripts[i]) : i \in 1..Len(scripts)}

\* es lists the tokens ts: each once, quoted, in ascending order
ListsTokens(es, ts) ==
    /\ Len(es) = Cardinality(ts)
    /\ {es[j] : j \in 1..Len(es)} = {GoQuote(t) : t \in ts}
    /\ \A j \in 1..(Len(es) - 1) : StrLess(es[j], es[j + 1])

\* C9: for every list of scripts whose names hold no newline, the script
\* CombineScripts returns has at most one line whose trimmed form starts with
\* require [; when there is one it is the first line, a blank line follows it,
\* and it lists the union of the extension tokens of all the require lines of
\* the input, each once, quoted and sorted. Two scripts that each require
\* fileinto give one line require ["fileinto"];.
C9_OneRequireLine ==
    (Combined /\ PlainNames) =>
        \E ls \in {Split(combined.Content, "\n")}, ts \in {AllTokens} :
            /\ Cardinality({j \in 1..Len(ls) : isRequireLine(ls[j])}) <= 1
            /\ IF ts = {}
               THEN \A j \in 1..Len(ls) : ~isRequireLine(ls[j])
               ELSE /\ Len(ls) >= 2
                    /\ HasPrefix(ls[1], "require [")
                    /\ HasSuffix(ls[1], "];")
                    /\ ls[2] = ""
                    /\ ListsTokens(Split(Slice(ls[1], 9, Len(ls[1]) - 2), ", "), ts)

C9_Witness ==
    /\ Combined
    /\ Len(scripts) = 2
    /\ PlainNames
    /\ scriptReqs(scripts[1]) = {"fileinto"}
    /\ scriptReqs(scripts[2]) = {"fileinto"}
    /\ HasPrefix(combined.Content, "require [\"fileinto\"];\n\n# Filter: ")

\* nothing is left of the script once its require lines are taken out
BodyEmpty(sc) ==
    \E ls \in {Split(sc.Content, "\n")} :
        \A j \in 1..Len(ls) : isRequireLine(ls[j]) \/ TrimSpace(ls[j]) = ""

\* the name comments of the text, in order
RECURSIVE NameComments(_)
NameComments(ls0) ==
    Only({ IF Len(ls) = 0 THEN <<>>
           ELSE (IF HasPrefix(ls[1], "# Filter: ") THEN <<ls[1]>> ELSE <<>>)
                    \o NameComments(Tail(ls)) : ls \in {ls0} })

\* the name comments of the scripts that have a body, in order
RECURSIVE KeptNames(_)
KeptNames(scs0) ==
    Only({ IF Len(scs) = 0 THEN <<>>
           ELSE (IF BodyEmpty(scs[1]) THEN <<>> ELSE <<"# Filter: " \o scs[1].Name>>)
                    \o KeptNames(Tail(scs)) : scs \in {scs0} })

\* C10: CombineScripts drops every script whose body is empty, or only
\* whitespace, once its require lines are removed: the script adds no name
\* comment, no body text and no separator line to the merged body.
C10_EmptyBodiesDropped ==
    (Combined /\ PlainNames) =>
        /\ NameComments(Split(combined.Content, "\n")) = KeptNames(scripts)
        /\ (\A i \in 1..Len(scripts) : BodyEmpty(scripts[i])) =>
              \/ combined.Content = ""
              \/ /\ HasPrefix(combined.Content, "require [")
                 /\ Len(Split(combined.Content, "\n")) = 3
                 /\ HasSuffix(combined.Content, ";\n\n")

C10_Witness ==
    /\ Combined
    /\ Len(scripts) = 2
    /\ scripts[1].Content = "require [\"fileinto\"];\n"
    /\ ~BodyEmpty(scripts[2])
    /\ Len(NameComments(Split(combined.Content, "\n"))) = 1

(***************************************************************************)
(* C11: the engine is total                                                *)
(***************************************************************************)
\* the run has handed back its value: the Rules of parseConditions, the
\* combined script, or no script at all when the Filter has no entry
Returned ==
    \/ pc = "parsed"
    \/ pc = "combined"
    \/ pc = "converted" /\ scripts = <<>>

\* an iteration of parseConditions' loop that goes round again
LoopsAgain == pc = "loop" /\ pc' = "loop"

\* C11: for every input text the line state machine of ParseFilterFile,
\* parseConditions, parseActions, ConvertFilters and CombineScripts finish and
\* return a value; every iteration of parseConditions' loop that goes round
\* again leaves less text than it found; no input makes ParseFilterFile
\* return an error.
C11_EngineTotal ==
    /\ <>Returned
    /\ [](pc # "failed")
    /\ [][LoopsAgain => Len(loopS') < Len(loopS)]_vars

\* a block was committed, and then a line that does not fit the Scanner's
\* buffer made ParseFilterFile return the error and the empty Filter
C11_Witness ==
    /\ pc = "failed"
    /\ Len(entries) = 1
    /\ filter = NoFilter
    /\ Len(file[pos]) >= MaxScanTokenSize

\* what does hold: every run ends, with a value or with the Scanner's error,
\* the error only on a line of MaxScanTokenSize bytes or more, and the loop
\* of parseConditions consumes text on every iteration that goes round again
TotalWithinBuffer ==
    /\ <>(Returned \/ pc = "failed")
    /\ [](pc = "failed" => Len(file[pos]) >= MaxScanTokenSize)
    /\ [][LoopsAgain => Len(loopS') < Len(loopS)]_vars

(***************************************************************************)
(* C12: the require line of a script                                       *)
(***************************************************************************)
ExtNames == {"body", "fileinto", "reject"}

\* a compiled clause that is a body test, negated or not
IsBodyTest(c) == HasPrefix(c, "body ") \/ HasPrefix(c, "not (body ")

\* the entry needs the extension n: an action of the kind, or a body test
Needs(flt, n) ==
    IF n = "fileinto"
    THEN \E j \in 1..Len(flt.Actions) : actionKind(flt.Actions[j]) \in {"save", "deliver"}
    ELSE IF n = "reject"
    THEN \E j \in 1..Len(flt.Actions) : actionKind(flt.Actions[j]) = "reject"
    ELSE \E j \in 1..Len(flt.Rules) : IsBodyTest(buildSingleCondition(flt.Rules[j]).cond)

\* the comment prefix in front of the lines of the entry's script
PrefixOf(flt) == IF flt.Enabled = 0 THEN "// " ELSE ""

\* the lines ls, each behind prefix p, declare exactly the extensions need:
\* no require line for none, else one require line that lists them, and
\* every fileinto, reject and body construct on a line is among them
DeclaresExactly(ls, p, need) ==
    \E reqAt \in {{j \in 1..Len(ls) : HasPrefix(ls[j], p \o "require [")}} :
        /\ need = {} => reqAt = {}
        /\ need # {} =>
              /\ Cardinality(reqAt) = 1
              /\ \A j \in reqAt :
                    /\ requireTokens(TrimPrefix(ls[j], p)) = need
                    /\ HasSuffix(ls[j], "];")
        /\ \A j \in 1..Len(ls) :
              /\ HasPrefix(ls[j], p \o "    fileinto ") => "fileinto" \in need
              /\ HasPrefix(ls[j], p \o "    reject ") => "reject" \in need
              /\ Contains(ls[j], "body :") => "body" \in need

\* C12: for every FilterEntry with at least one rule, the require line of its
\* script lists exactly fileinto iff some action is save or deliver, reject
\* iff some action is reject, and body iff some rule compiled to a body test;
\* there is no require line when that set is empty; hence every fileinto,
\* reject and body construct of the script is declared.
C12_RequireListsExactly ==
    Converted =>
        \A i \in 1..Len(scripts) :
            \E flt \in {filter.Filter[i]} :
                Len(flt.Rules) > 0 =>
                    DeclaresExactly(Split(scripts[i].Content, "\n"), PrefixOf(flt),
                                    {n \in ExtNames : Needs(flt, n)})

\* one script requires all three extensions, another, of an entry with a
\* rule, requires none
C12_Witness ==
    /\ pc = "converted"
    /\ \E i, k \in 1..Len(scripts) :
         /\ HasPrefix(scripts[i].Content, "require [\"body\", \"fileinto\", \"reject\"];\n")
         /\ Len(filter.Filter[k].Rules) > 0
         /\ ~Contains(scripts[k].Content, "require")

(***************************************************************************)
(* C13: the output does not depend on the order of map iteration           *)
(***************************************************************************)
\* C13: the output is deterministic: the scripts ConvertFilters returned for
\* a Filter and the script CombineScripts returned for a script list are the
\* ones every other run returns on the same input, whatever the order in
\* which the set of required extensions is iterated.
C13_OutputDeterministic ==
    /\ pc = "converted" =>
          \A order \in MapOrders : scripts = ConvertFilters(filter, order)
    /\ pc = "combined" =>
          \A order \in MapOrders : combined = CombineScripts(target, scripts, order)

\* a script that requires three extensions was converted and combined: both
\* maps had six orders to be ranged over
C13_Witness ==
    /\ pc = "combined"
    /\ \E i \in 1..Len(scripts) :
         HasPrefix(scripts[i].Content, "require [\"body\", \"fileinto\", \"reject\"];\n")
    /\ HasPrefix(combined.Content, "require [\"body\", \"fileinto\", \"reject\"];\n")
    /\ Cardinality({SetToSeq(ExtNames, order) : order \in MapOrders}) = 6

(***************************************************************************)
(* C14: one script per entry, clauses and statements in source order       *)
(***************************************************************************)
\* the clauses cs, each on a line of its own, a comma behind all but the last
RECURSIVE ClauseRows(_)
ClauseRows(cs) ==
    IF Len(cs) = 0 THEN ""
    ELSE "    " \o cs[1] \o (IF Len(cs) > 1 THEN "," ELSE "") \o "\n" \o ClauseRows(Tail(cs))

\* the statements of the actions as, first to last
RECURSIVE StatementRows(_)
StatementRows(as) ==
    IF Len(as) = 0 THEN "" ELSE actionText(as[1]) \o StatementRows(Tail(as))

\* the statements of an entry and the stop; that follows them
StatementsAndStop(flt) ==
    (IF Len(flt.Actions) = 0 THEN "    # TODO: no actions defined in original filter\n"
     ELSE StatementRows(flt.Actions)) \o "    stop;\n}\n"

\* the if block of an entry whose clauses are joined with op
IfBlock(flt, op) ==
    Only({ "if " \o (IF Len(cs) = 1 THEN cs[1] ELSE op \o " (\n" \o ClauseRows(cs) \o ")")
                 \o " {\n" \o StatementsAndStop(flt)
           : cs \in {[j \in 1..Len(flt.Rules) |->
                        buildSingleCondition(flt.Rules[j]).cond]} })

\* the lines os as a script shows them behind the comment prefix p
Shown(os, p) ==
    [j \in 1..Len(os) |->
        IF p = "" THEN os[j] ELSE IF TrimSpace(os[j]) = "" THEN "" ELSE p \o os[j]]

\* the script text ends with the text block, shown behind the prefix p
EndsWithBlock(text, block, p) ==
    \E ls \in {Split(text, "\n")}, os \in {Shown(Split(block, "\n"), p)} :
        /\ Len(ls) >= Len(os)
        /\ SubSeq(ls, Len(ls) - Len(os) + 1, Len(ls)) = os

\* one script per entry, in input order, named after the entry
OnePerEntry ==
    /\ Len(scripts) = Len(filter.Filter)
    /\ \A i \in 1..Len(scripts) : scripts[i].Name = filter.Filter[i].Filtername

GivenModes ==
    (IF flags.cpUser # "" \/ flags.account # "" THEN {"ExportUser"} ELSE {})
      \cup (IF flags.path # "" THEN {"SingleFile"} ELSE {})
      \cup (IF flags.importSieve THEN {"ImportSieve"} ELSE {})
      \cup (IF flags.importMaildir THEN {"ImportMaildir"} ELSE {})
      \cup (IF flags.createMailcow THEN {"Mailcow"} ELSE {})

\* C15: the CLI runs exactly one mode per invocation: with no mode flag it
\* prints the usage and exits with status 1 before any work; with two or more
\* modes it aborts before any handler is started; with exactly one it runs
\* only that mode's handler, so that the final fatal of main, No valid mode
\* selected, is unreachable.
C15_OneModePerRun ==
    /\ status.msg # "No valid mode selected"
    /\ Len(ran) <= 1
    /\ pc = "modes" => Cardinality(GivenModes) = 1 /\ ran = <<>>
    /\ pc = "exited" =>
          /\ Cardinality(GivenModes) = 0 => status = Exit(1, "usage") /\ ran = <<>>
          /\ Cardinality(GivenModes) > 1 =>
                status = Exit(1, "Only one of") /\ ran = <<>>
          /\ Cardinality(GivenModes) = 1 =>
                /\ Len(ran) = 1 /\ ran[1] \in GivenModes
                /\ status.msg \notin {"usage", "Only one of",
                                       "cannot be combined with -path"}

\* -account alone was given and only the export ran, to its end
C15_Witness ==
    /\ pc = "exited"
    /\ flags.account # "" /\ flags.cpUser = flags.account
    /\ GivenModes = {"ExportUser"}
    /\ ran = <<"ExportUser">>
    /\ status = Exit(0, "")

(***************************************************************************)
(* C16: what ParseFilterFile commits                                       *)
(***************************************************************************)
\* the line the scanner loop looks at: scanner.Text(), trimmed
CurrentLine == TrimSpace(file[pos])

\* the loop is about to look at a line that is neither blank nor boilerplate
AtLine ==
    /\ pc = "scan" /\ pos <= Len(file) /\ Len(file[pos]) < MaxScanTokenSize
    /\ CurrentLine # "" /\ ~isBoilerplate(CurrentLine)

Scanning == ~inIf /\ ~inThen

\* the next step calls flush: on a name line, on endif, or at the end of input
FlushesNow ==
    \/ pc = "scan" /\ pos > Len(file)
    \/ AtLine /\ Scanning /\ HasPrefix(CurrentLine, "#")
    \/ AtLine /\ ~inIf /\ inThen /\ HasPrefix(CurrentLine, "endif")

\* the pending block has no name, or its parsed conditions or actions are empty
PendingIsEmpty ==
    \/ curName = ""
    \/ Len(parseConditions(condLines)) = 0
    \/ Len(parseActions(actionLines)) = 0

WellFormed(e) == e.Filtername # "" /\ Len(e.Rules) >= 1 /\ Len(e.Actions) >= 1

\* a flush of an empty pending block: the entries stay, the block is forgotten
DiscardsEntirely ==
    /\ entries' = entries
    /\ condLines' = <<>> /\ actionLines' = <<>>
    /\ inIf' = FALSE /\ inThen' = FALSE
    /\ curName' = IF AtLine /\ HasPrefix(CurrentLine, "#")
                  THEN TrimSpace(TrimPrefix(CurrentLine, "#")) ELSE ""

\* C16: every FilterEntry ParseFilterFile returns has a non-empty name, at
\* least one Rule and at least one Action; a block with no name, or whose
\* parsed conditions or actions are empty, is discarded entirely and leaves no
\* trace in later entries: the entries are unchanged and nothing of the block
\* is kept.
C16_CommittedEntries ==
    /\ [](/\ \A i \in 1..Len(entries) : WellFormed(entries[i])
          /\ \A i \in 1..Len(filter.Filter) : WellFormed(filter.Filter[i])
          /\ pc = "loaded" => filter.Filter = entries)
    /\ [][FlushesNow /\ PendingIsEmpty => DiscardsEntirely]_vars

\* a block without a name, with a rule and an action, was read and discarded;
\* the block after it is the only entry returned, and holds nothing of it
C16_Witness ==
    /\ pc = "loaded"
    /\ Len(file) >= 3 /\ file[3] = "save \"Lost\""
    /\ filter.Filter =
         <<FilterEntry("Nixpal", 1, <<Rule("$header_from:", "contains", "foo", "or")>>,
                       <<Action("save", "Nixpal"), Action("finish", "")>>)>>

(***************************************************************************)
(* C17: the line state machine                                             *)
(***************************************************************************)
\* nothing of the pending block and of the state changes but what is named
OnlyCondLines == UNCHANGED <<curName, actionLines, inIf, inThen, entries>>
OnlyActionLines == UNCHANGED <<curName, condLines, inIf, inThen, entries>>

\* flush was called on the pending block: committed or dropped, and forgotten
Commits ==
    /\ entries' = flushEntries(entries, curName, condLines, actionLines)
    /\ condLines' = <<>> /\ actionLines' = <<>>

\* what a step does with a line that is neither blank nor boilerplate
LineStep ==
    \E l \in {CurrentLine} :
        \* a region starts only in SCANNING
        /\ (curName' # curName /\ curName' # "") => Scanning /\ HasPrefix(l, "#")
        /\ (~inIf /\ inIf') => Scanning /\ HasPrefix(l, "if")
        /\ (Scanning /\ HasPrefix(l, "#")) =>
              curName' = TrimSpace(TrimPrefix(l, "#")) /\ Scanning'
        /\ (Scanning /\ ~HasPrefix(l, "#") /\ HasPrefix(l, "if")) =>
              inIf' /\ ~inThen' /\ UNCHANGED <<curName, actionLines, entries>>
        \* IN_CONDITION
        /\ (inIf /\ ~HasPrefix(l, "then")) =>
              condLines' = Append(condLines, l) /\ OnlyCondLines
        /\ (inIf /\ HasPrefix(l, "then")) =>
              ~inIf' /\ inThen' /\ UNCHANGED <<curName, condLines, actionLines, entries>>
        \* IN_ACTION
        /\ (inThen /\ ~HasPrefix(l, "endif")) =>
              actionLines' = Append(actionLines, l) /\ OnlyActionLines
        /\ (inThen /\ HasPrefix(l, "endif")) =>
              Scanning' /\ Commits /\ curName' = ""

\* C17: a # line and an if line start a name or a condition region only in
\* SCANNING; in IN_CONDITION every line that is not boilerplate, other than a
\* then line, is appended to the condition text, # and endif lines included;
\* in IN_ACTION every such line other than an endif line is appended to the
\* action text, #, if and then lines included; a then line moves IN_CONDITION
\* to IN_ACTION; an endif line moves IN_ACTION to SCANNING and commits the
\* block.
C17_LineStateMachine ==
    /\ [](~(inIf /\ inThen))
    /\ [][AtLine => LineStep]_vars

\* the condition region has taken a # line and an endif line, the action
\* region a # line, an if line and a then line
C17_Witness ==
    /\ pc = "scan" /\ inThen
    /\ curName = "Odd"
    /\ condLines = <<"$header_from: contains \"foo\"", "#Nixpal", "endif">>
    /\ actionLines =
         <<"#Nixpal", "if $header_to: is \"x\"", "then", "save \"Nixpal\"">>

(***************************************************************************)
(* C18: input that ends inside a block                                     *)
(***************************************************************************)
\* the scanner has no line left
AtEndOfInput == pc = "scan" /\ pos > Len(file)

\* the pending block as an entry
PendingEntry ==
    FilterEntry(curName, 1, parseConditions(condLines), parseActions(actionLines))

\* ParseFilterFile returns the entries es, and no error
Returns(es) == pc' = "loaded" /\ filter' = Filter(es, "text")

LoopJoin == stripJoin(TrimSpace(loopS), loopFirst)

\* the iteration has a clause to look at
AtClause == pc = "loop" /\ TrimSpace(loopS) # "" /\ LoopJoin.s # ""

\* the clause: the text up to the next " or " / " and "
ClauseText == TrimSpace(Slice(LoopJoin.s, 0, cutOf(LoopJoin.s)))

\* the join keyword in front of the clause; the first clause has none
Keyword ==
    IF ~loopFirst /\ HasPrefix(ToLower(TrimSpace(loopS)), "and ") THEN "and" ELSE "or"

AfterColon(c) == Slice(c, Index(c, ":") + 1, Len(c))

\* the clause has no colon, or no complete quoted value behind it
Malformed(c) == ~Contains(c, ":") \/ Len(Split(AfterColon(c), "\"")) < 3

\* the Rules grow by one Rule, which carries the keyword and the clause's
\* part and value
KeepsClause(c) ==
    /\ Len(loopRules') = Len(loopRules) + 1
    /\ SubSeq(loopRules', 1, Len(loopRules)) = loopRules
    /\ \E r \in {loopRules'[Len(loopRules')]} :
         /\ r.Opt = Keyword
         /\ r.Part = TrimSpace(Slice(c, 0, Index(c, ":") + 1))
         /\ r.Val = Split(AfterColon(c), "\"")[2]

\* C19: in parseConditions a clause with no colon or no complete quoted value
\* is skipped without stopping the parse; the clauses after it are still
\* parsed, the Rules keep source order, and each kept Rule carries the join
\* keyword that preceded its own clause, the first clause always tagged or.
C19_SkippedClauses ==
    /\ [][AtClause =>
            /\ pc' = "loop"
            /\ IF Malformed(ClauseText) THEN loopRules' = loopRules
               ELSE KeepsClause(ClauseText)]_vars
    /\ [](pc = "parsed" => loopRules = parseConditions(condLines))

\* a clause without a colon stood between two kept clauses
C19_Witness ==
    /\ pc = "parsed"
    /\ condLines = <<"$header_from: contains \"foo\"", "or nocolon \"x\"",
                     "AND $header_to: is \"a\"">>
    /\ loopRules = <<Rule("$header_from:", "contains", "foo", "or"),
                     Rule("$header_to:", "is", "a", "and")>>

(***************************************************************************)
(* C20: deliver lines                                                      *)
(***************************************************************************)
Marker == "$local_part+"

IsDeliverLine(l) == HasPrefix(ToLower(TrimSpace(l)), "deliver ")

\* the text behind the marker up to the quote, escaped or not, or the @
NameAfterMarker(l) ==
    Only({ Slice(rest, 0, IF i >= 0 THEN i ELSE Len(rest))
           : rest \in {Slice(l, Index(l, Marker) + Len(Marker), Len(l))},
             i \in {IndexAny(Slice(l, Index(l, Marker) + Len(Marker), Len(l)),
                             "\\\"@")} })

\* a deliver line whose quoted value holds the marker followed by a name
HasMarkedName(l) ==
    IsDeliverLine(l) /\ Contains(l, "\"") /\ Contains(l, Marker)
      /\ NameAfterMarker(l) # ""

\* a deliver line with a quoted value that does not hold the marker
HasPlainValue(l) ==
    IsDeliverLine(l) /\ extractFirstQuoted(l) # "" /\ ~Contains(l, Marker)

\* the Actions the claim gives for a line; the lines it does not speak of
\* yield what lineActions yields
StatedActions(l) ==
    IF HasMarkedName(l) THEN <<Action("save", NameAfterMarker(l))>>
    ELSE IF HasPlainValue(l) THEN <<Action("deliver", extractFirstQuoted(l))>>
    ELSE lineActions(l)

RECURSIVE StatedActionsOf(_)
StatedActionsOf(ls) ==
    IF Len(ls) = 0 THEN <<>> ELSE StatedActions(ls[1]) \o StatedActionsOf(Tail(ls))

\* C20: for every deliver line whose quoted value contains $local_part+
\* followed by NAME and then a quote or @, parseActions emits exactly one
\* Action{save, dest = NAME}, the documented form
\* deliver "\"$local_part+Nixpal\"@$domain" included, which yields
\* Action{save, "Nixpal"}; a deliver value without the marker yields
\* Action{deliver, dest = value}.
C20_DeliverLines ==
    pc = "actsDone" => actions = StatedActionsOf(actionLines)

\* the documented deliver line was parsed: extractFirstQuoted stopped at the
\* escaped quote, and the line became a deliver to a backslash
C20_Witness ==
    /\ pc = "actsDone"
    /\ actionLines = <<DocDeliverLine>>
    /\ StatedActionsOf(actionLines) = <<Action("save", "Nixpal")>>
    /\ actions = <<Action("deliver", "\\")>>

\* what does hold: the lines without a backslash yield the stated Actions
DeliverLinesUnescaped ==
    (pc = "actsDone" /\ \A i \in 1..Len(actionLines) : ~Contains(actionLines[i], "\\"))
        => actions = StatedActionsOf(actionLines)

(***************************************************************************)
(* C21: the polarity of the placeholders of buildSingleCondition           *)
(***************************************************************************)
\* the match keyword as buildSingleCondition compares it
MatchOf(r) == ToLower(TrimSpace(r.Match))

\* the keyword is a regex form that is not converted
RegexForm(r) == MatchOf(r) \in {"matches_regex", "does not match"}

\* a matches rule whose val simpleRegexToGlob does not reduce
IrreducibleMatches(r) == MatchOf(r) = "matches" /\ ~simpleRegexToGlob(r.Val).ok

\* the keyword is in no row of the operator table, or the val is empty
NoOperator(r) == MatchOf(r) \notin TableMatches \/ r.Val = ""

\* the literal lit followed by a comment and nothing else
IsPlaceholder(c, lit) == HasPrefix(c, lit \o " /* TODO: ") /\ HasSuffix(c, " */")

\* C21: a rule whose match is matches_regex or does not match, or is matches
\* with a val that cannot be reduced to a glob, compiles to a literal false
\* with a comment; any other rule whose match is not in the operator table,
\* or whose val is empty, compiles to a literal true with a comment; every
\* other rule compiles to a test.  No placeholder sets the body flag, whatever
\* the part is.
C21_PlaceholderPolarity ==
    (Built /\ Len(rules) = 1) =>
        \E r \in {rules[1]} :
            IF RegexForm(r) \/ IrreducibleMatches(r)
            THEN IsPlaceholder(cond, "false") /\ ~condBody
            ELSE IF MatchOf(r) # "matches" /\ NoOperator(r)
            THEN IsPlaceholder(cond, "true") /\ ~condBody
            ELSE ~HasPrefix(cond, "false") /\ ~HasPrefix(cond, "true")

\* a matches rule on the body with a val that holds a regex character, and
\* after it the false placeholder without the body flag
C21_Witness ==
    /\ Built
    /\ rules = <<Rule("$message_body", "matches", "Sus*ended", "or")>>
    /\ cond = "false /* TODO: unsupported match \"matches\" on $message_body \"Sus*ended\" */"
    /\ ~condBody

(***************************************************************************)
(* C22: the field of a part that is in no row of the field table           *)
(***************************************************************************)
\* the parts the field table has a row for
KnownParts ==
    { "from", "h_from", "to", "h_to", "subject", "h_subject", "any recipient",
      "any_recipient", "anyrecipient", "reply", "reply-to", "reply_to", "body",
      "message_body", "any header", "any_header", "anyheader" }

\* the part without the header-reference marker in front
Unmarked(p0) ==
    Only({ TrimPrefix(IF HasPrefix(ToLower(p), "$header_") THEN Slice(p, 8, Len(p)) ELSE p,
                      "$") : p \in {TrimSpace(p0)} })

\* the raw token of a part: the part as written, without the marker and the
\* trailing colon
RawToken(part) == TrimSpace(TrimSuffix(Unmarked(part), ":"))

IsLetter(c) == c \in DOMAIN LowerOf \/ c \in {LowerOf[u] : u \in DOMAIN LowerOf}

\* the upper-case letter of a character
UpperChar(c0) ==
    Only({ IF \E u \in DOMAIN LowerOf : LowerOf[u] = c
           THEN CHOOSE u \in DOMAIN LowerOf : LowerOf[u] = c ELSE c : c \in {c0} })

\* the token with the first letter of each word in upper case and every
\* other character as it is
RECURSIVE TitleFrom(_, _)
TitleFrom(s0, i0) ==
    Only({ IF i > Len(s) THEN ""
           ELSE (IF i = 1 \/ ~IsLetter(SubSeq(s, i - 1, i - 1))
                 THEN UpperChar(SubSeq(s, i, i)) ELSE SubSeq(s, i, i))
                    \o TitleFrom(s, i + 1)
           : s \in {s0}, i \in {i0} })

Title(s) == TitleFrom(s, 1)

\* the one test a table rule on an unknown part is stated to compile to
HeaderTestOn(name, r) ==
    "header " \o TableComparator(r.Match) \o " " \o quoteString(name) \o " "
        \o quoteString(TablePattern(r.Match, r.Val))

\* C22: for every rule with a table operator and a non-empty val whose part,
\* without the header-reference marker and the trailing colon, is in no row
\* of the field table, the test is a header test on the single header named
\* by the raw token (as it is written, or with its words capitalized); an
\* empty token gives the header "Subject".
C22_UnknownPart ==
    (Built /\ Len(rules) = 1 /\ TableRule(rules[1])) =>
        \E r \in {rules[1]}, tok \in {RawToken(rules[1].Part)} :
            ToLower(tok) \notin KnownParts =>
                IF tok = "" THEN Unnegated(cond) = HeaderTestOn("Subject", r)
                ELSE Unnegated(cond) \in {HeaderTestOn(tok, r), HeaderTestOn(Title(tok), r)}

\* the rule {$header_X-Spam:, contains, foo} was compiled: the header is
\* named in lower case
C22_Witness ==
    /\ Built
    /\ rules = <<Rule("$header_X-Spam:", "contains", "foo", "or")>>
    /\ cond = "header :contains \"x-spam\" \"foo\""

\* what the code does: the header is named by the token in lower case
UnknownPartLowerCased ==
    (Built /\ Len(rules) = 1 /\ TableRule(rules[1])) =>
        \E r \in {rules[1]}, tok \in {RawToken(rules[1].Part)} :
            ToLower(tok) \notin KnownParts =>
                Unnegated(cond) = HeaderTestOn(IF tok = "" THEN "Subject" ELSE ToLower(tok), r)

(***************************************************************************)
(* C23: the mailbox of a save action                                       *)
(***************************************************************************)
\* the text behind the last / of a path
LastSegment(d) == Only({ ps[Len(ps)] : ps \in {Split(d, "/")} })

\* the mailbox as stated: the final segment without its leading dot
StatedMailbox(d) == IF d = "" THEN "INBOX" ELSE TrimPrefix(LastSegment(d), ".")

\* the mailbox: the final segment without the white space around it and
\* without its leading dot, and the dest itself when nothing is left of it
KeptMailbox(d) ==
    IF d = "" THEN "INBOX"
    ELSE Only({ IF seg = "" THEN d ELSE seg
                : seg \in {TrimPrefix(TrimSpace(LastSegment(d)), ".")} })

\* the save action of an enabled entry that has a rule
SaveEntries ==
    { i \in 1..Len(filter.Filter) :
        /\ filter.Filter[i].Enabled # 0
        /\ Len(filter.Filter[i].Rules) > 0
        /\ Len(filter.Filter[i].Actions) = 1
        /\ actionKind(filter.Filter[i].Actions[1]) = "save" }

\* the if block of the script ends with the fileinto of the mailbox box, the
\* comment that records dest, and stop;
FilesInto(text, box, dest) ==
    HasSuffix(text, " {\n    fileinto " \o quoteString(box) \o ";\n    # original path: "
                        \o quoteString(dest) \o "\n    stop;\n}\n")

RECURSIVE RetainedFrom(_)
RetainedFrom(i) ==
    IF i > Len(scripts) THEN <<>>
    ELSE (IF scriptBody(scripts[i]) = "" THEN <<>> ELSE <<scripts[i]>>) \o RetainedFrom(i + 1)

\* the lines stated for the kept scripts: for each one the name comment on a
\* line of its own, the lines of the body, and a blank line
RECURSIVE StatedLines(_)
StatedLines(scs) ==
    IF Len(scs) = 0 THEN <<>>
    ELSE <<"# Filter: " \o scs[1].Name>> \o Split(scriptBody(scs[1]), "\n") \o <<"">>
             \o StatedLines(Tail(scs))

\* the lines ls are the lines body, behind a require line and a blank line
\* when there is a require line
BodyLinesAre(ls, body) ==
    \/ ls = body
    \/ /\ Len(ls) = Len(body) + 2
       /\ isRequireLine(ls[1]) /\ ls[2] = ""
       /\ SubSeq(ls, 3, Len(ls)) = body

\* C24: the script CombineScripts returns is named by the target name; its
\* kept bodies are in the order of the input scripts, each right behind a
\* name comment # Filter: <name> that takes one line, whatever the name is,
\* and in front of one blank line.
C24_BodiesInOrder ==
    Combined =>
        /\ combined.Name = target
        /\ \E kept \in {RetainedFrom(1)} :
              Len(kept) > 0 =>
                  BodyLinesAre(Split(combined.Content, "\n"), StatedLines(kept))

\* a script whose name holds a newline was combined: the text behind the
\* newline is a line of the combined script outside the name comment
C24_Witness ==
    /\ Combined
    /\ Len(scripts) = 1
    /\ scripts[1] = SieveScript("x\nrequire [\"evil\"];", "if true {\n\n    require [\"copy\",\"body\"];\n    stop;\n}\n")
    /\ HasPrefix(combined.Content,
                 "require [\"body\", \"copy\"];\n\n# Filter: x\nrequire [\"evil\"];\nif true {\n")

\* what the code does: the statement holds for names without a newline
BodiesInOrderPlainNames ==
    (Combined /\ PlainNames) =>
        /\ combined.Name = target
        /\ \E kept \in {RetainedFrom(1)} :
              Len(kept) > 0 =>
                  BodyLinesAre(Split(combined.Content, "\n"), StatedLines(kept))

(***************************************************************************)
(* C25: placeholders and comments are inert                                *)
(***************************************************************************)
\* the condition is a literal followed by the start of a bracket comment
StartsPlaceholder(c) == HasPrefix(c, "true /* ") \/ HasPrefix(c, "false /* ")

\* the first end of a bracket comment in c is the end of c
CommentClosesLast(c) == Index(c, "*/") = Len(c) - 2

\* the text of the if block between its opening line and stop;
BlockBody(text0) ==
    Only({ Slice(text, Index(text, " {\n") + 3, Len(text) - Len("    stop;\n}\n"))
           : text \in {text0} })

\* t is one line, a hash comment
OneCommentLine(t) == HasPrefix(t, "    # ") /\ Index(t, "\n") = Len(t) - 1

\* the enabled one-action entries whose action compiles to a comment
CommentEntries ==
    { i \in 1..Len(filter.Filter) :
        /\ filter.Filter[i].Enabled # 0
        /\ Len(filter.Filter[i].Rules) > 0
        /\ Len(filter.Filter[i].Actions) = 1
        /\ actionKind(filter.Filter[i].Actions[1]) \notin {"deliver", "reject"} }

\* the block of the entry holds the statement stmt and after it one comment
\* line, and nothing else
OnlyCommentAfter(text, stmt) ==
    \E body \in {BlockBody(text)} :
        /\ HasPrefix(body, stmt)
        /\ OneCommentLine(Slice(body, Len(stmt), Len(body)))

\* the fileinto statement of a save action, none for the other actions
StatementOf(a) ==
    IF actionKind(a) = "save"
    THEN "    fileinto " \o quoteString(mailboxFromDest(a.Dest)) \o ";\n" ELSE ""

\* C25: for every part, match, val and dest, a placeholder is the literal
\* and one comment that ends where the condition ends, and an action that
\* compiles to a comment (finish, an unsupported action, the original path
\* of save) adds one comment line and no statement but the fileinto of save:
\* no value, one with */ or a newline included, ends the comment early.
C25_Inert ==
    /\ (Built /\ Len(rules) = 1 /\ StartsPlaceholder(cond)) => CommentClosesLast(cond)
    /\ pc = "converted" =>
          \A i \in CommentEntries :
              OnlyCommentAfter(scripts[i].Content, StatementOf(filter.Filter[i].Actions[1]))

\* a rule with an unsupported match and a val that holds */ was compiled:
\* the comment ends inside the val
C25_Witness ==
    /\ Built
    /\ rules = <<Rule("$header_subject:", "sounds like", "a*/b", "or")>>
    /\ cond = "true /* TODO: unsupported match \"sounds like\" on $header_subject: \"a*/b\" */"
    /\ Index(cond, "*/") < Len(cond) - 2

\* no field of the rule holds the end of a bracket comment
PlainRule(r) == ~Contains(r.Part, "*/") /\ ~Contains(r.Match, "*/") /\ ~Contains(r.Val, "*/")

\* what the code does: a placeholder is inert when no field holds */, and a
\* comment action is inert when the dest of a save holds no newline
InertPlainValues ==
    /\ (Built /\ Len(rules) = 1 /\ StartsPlaceholder(cond) /\ PlainRule(rules[1]))
          => CommentClosesLast(cond)
    /\ pc = "converted" =>
          \A i \in CommentEntries :
              \E a \in {filter.Filter[i].Actions[1]} :
                  (actionKind(a) = "save" => ~Contains(a.Dest, "\n"))
                      => OnlyCommentAfter(scripts[i].Content, StatementOf(a))

\* a save whose dest holds a newline adds a line that is no comment
SaveBreaksComment ==
    /\ pc = "converted"
    /\ filter.Filter[1].Actions[1] = Action("save", "x\ny")
    /\ filter.Filter[1].Enabled = 1
    /\ HasSuffix(scripts[1].Content,
                 "    fileinto \"x\ny\";\n    # original path: \"x\ny\"\n    stop;\n}\n")

(***************************************************************************)
(* C26: the invariant of the parser state                                  *)
(***************************************************************************)
\* the name lines among the lines the loop has read: the lines that begin
\* with # and are not boilerplate
NameLinesRead ==
    { i \in 1..(pos - 1) :
        HasPrefix(TrimSpace(file[i]), "#") /\ ~isBoilerplate(TrimSpace(file[i])) }

\* the step reads an endif line in the action region
AtEndif == AtLine /\ inThen /\ HasPrefix(CurrentLine, "endif")

\* the step appends one entry, named by the pending name, and forgets the name
AppendsPending ==
    /\ Len(entries') = Len(entries) + 1
    /\ SubSeq(entries', 1, Len(entries)) = entries
    /\ curName # ""
    /\ entries'[Len(entries')].Filtername = curName
    /\ curName' = ""

\* C26: in every state of ParseFilterFile the two region flags are never both
\* set; in SCANNING the condition and the action text are empty; the entries
\* change only at an endif line or at the end of input, by one entry that
\* takes the pending name, and a name is pending only from a name line read
\* in SCANNING: each name line yields at most one entry, so a block that
\* follows an endif without a new name line is never committed.
C26_ParserInvariant ==
    /\ [](/\ ~(inIf /\ inThen)
          /\ Scanning => condLines = <<>> /\ actionLines = <<>>
          /\ Len(entries) <= Cardinality(NameLinesRead))
    /\ [][entries' # entries => (AtEndif \/ AtEndOfInput) /\ AppendsPending]_vars
    /\ [][(curName' # curName /\ curName' # "")
              => AtLine /\ Scanning /\ HasPrefix(CurrentLine, "#")]_vars
    /\ [][(AtEndif \/ AtEndOfInput) => curName' = "" /\ Scanning']_vars

\* the Nixpal block and, behind its endif, a block without a name line were
\* read: the second block is not returned
C26_Witness ==
    /\ pc = "loaded"
    /\ Len(file) = 10 /\ file[9] = "save \"Lost\"" /\ file[10] = "endif"
    /\ filter.Filter =
         <<FilterEntry("Nixpal", 1, <<Rule("$header_from:", "contains", "foo", "or")>>,
                       <<Action("save", "Nixpal"), Action("finish", "")>>)>>

(***************************************************************************)
(* C27: the join of a text filter                                          *)
(***************************************************************************)
\* the text parseConditions works on
JoinedText == TrimSpace(Join(condLines, " "))

\* the first clause of the text: up to the first join keyword
FirstClause == TrimSpace(Slice(JoinedText, 0, cutOf(JoinedText)))

\* the first clause is well-formed: it is kept as a Rule
FirstKept == JoinedText # "" /\ FirstClause # "" /\ ~Malformed(FirstClause)

AllIntroducedByAnd(rs) == \A i \in 1..Len(rs) : rs[i].Opt = "and"

\* C27: when the first condition clause of a text filter is well-formed, the
\* first Rule parseConditions produces has opt or, and an entry of two or
\* more rules compiles to anyof; allof comes out of text only when the first
\* clause was skipped and every kept clause was introduced by and.
C27_TextJoin ==
    /\ (pc \in {"loop", "parsed", "built"} /\ ~loopFirst /\ FirstKept)
          => Len(loopRules) >= 1 /\ loopRules[1].Opt = "or"
    /\ (Built /\ Len(rules) >= 2) =>
          /\ rules = parseConditions(condLines)
          /\ HasPrefix(cond, "anyof (\n") \/ HasPrefix(cond, "allof (\n")
          /\ FirstKept => HasPrefix(cond, "anyof (\n")
          /\ HasPrefix(cond, "allof (\n") => ~FirstKept /\ AllIntroducedByAnd(rules)

\* the text A and B was parsed and compiled to anyof (A, B)
C27_Witness ==
    /\ Built
    /\ condLines = <<"$header_from: contains \"foo\"",
                     "and $header_subject: begins \"WHMCS\"">>
    /\ rules = <<Rule("$header_from:", "contains", "foo", "or"),
                 Rule("$header_subject:", "begins", "WHMCS", "and")>>
    /\ cond = "anyof (\n    address :contains \"From\" \"foo\",\n"
                \o "    header :matches \"Subject\" \"WHMCS*\"\n)"

\* a text whose first clause is skipped and whose kept clauses are all
\* introduced by and compiles to allof
AllofFromText ==
    /\ Built
    /\ condLines = <<"or nocolon \"x\"", "AND $header_to: is \"a\"",
                     "and $header_subject: begins \"WHMCS\"">>
    /\ HasPrefix(cond, "allof (\n")

(***************************************************************************)
(* C28: the match of a text rule is one token                              *)
(***************************************************************************)
\* one token: not empty, in lower case, without white space
OneLowerToken(m) ==
    /\ m # "" /\ ToLower(m) = m
    /\ ~ContainsAny(m, " \t\n\r")

\* the condition of rule r, as ConvertFilters writes it
TestOf(r) == buildSingleCondition(r).cond

IsNegatedTest(c) == HasPrefix(c, "not (")

\* the lines of a compiled condition: the tests of a join, or the one test
TestLines(c) ==
    IF HasPrefix(c, "anyof (\n") \/ HasPrefix(c, "allof (\n")
    THEN { l \in { Split(c, "\n")[i] : i \in 1..Len(Split(c, "\n")) } :
               HasPrefix(l, "    ") }
    ELSE { "    " \o c }

\* the line is a clause that holds one operator and no join keyword inside
SingleClause(l) == l # "" /\ cutOf(l) = Len(l) /\ ~Malformed(l)

\* the first token after the colon of clause c, in lower case
FirstToken(c) == ToLower(Fields(AfterColon(c))[1])

\* C28: every Rule the text parser produces has as match one lower-case
\* token without white space, the first token after the colon; hence no rule
\* of a text filter compiles to a negated test not ( ... ): a rule whose
\* operator was written is not "x" has match is and compiles to the positive
\* :is test on x, and a rule whose operator begins with does compiles to the
\* true placeholder.
C28_TextMatchToken ==
    /\ \A i \in 1..Len(loopRules) : OneLowerToken(loopRules[i].Match)
    /\ (pc = "parsed" /\ Len(condLines) = 1 /\ SingleClause(condLines[1])) =>
          /\ Len(loopRules) = 1
          /\ loopRules[1].Match = FirstToken(condLines[1])
    /\ Built =>
          /\ \A l \in TestLines(cond) : ~HasPrefix(l, "    not (")
          /\ \A i \in 1..Len(rules) :
                /\ ~IsNegatedTest(TestOf(rules[i]))
                /\ (rules[i].Match = "is" /\ rules[i].Val # "") =>
                      /\ Contains(TestOf(rules[i]), " :is ")
                      /\ HasSuffix(TestOf(rules[i]), " " \o quoteString(rules[i].Val))
                /\ rules[i].Match = "does" => IsPlaceholder(TestOf(rules[i]), "true")

\* the clauses is not "x" and does not contain "y" were parsed and compiled:
\* a positive :is test and the true placeholder
C28_Witness ==
    /\ Built
    /\ condLines = <<"$header_from: contains \"foo\"", "or $header_to: Is Not \"x\"",
                     "and $header_from: does not contain \"y\"">>
    /\ rules = <<Rule("$header_from:", "contains", "foo", "or"),
                 Rule("$header_to:", "is", "x", "or"),
                 Rule("$header_from:", "does", "y", "and")>>
    /\ cond = "anyof (\n    address :contains \"From\" \"foo\",\n"
                \o "    address :is \"To\" \"x\",\n"
                \o "    true /* TODO: unsupported match \"does\" on $header_from: \"y\" */\n)"

(***************************************************************************)
(* C29: a disabled entry and the combined require line                     *)
(***************************************************************************)
DisabledAt == { i \in 1..Len(filter.Filter) : filter.Filter[i].Enabled = 0 }

\* the extensions of the enabled entries that have at least one rule
EnabledNeeds ==
    UNION { {n \in ExtNames : Needs(filter.Filter[i], n)}
            : i \in { k \in 1..Len(filter.Filter) :
                        /\ filter.Filter[k].Enabled # 0
                        /\ Len(filter.Filter[k].Rules) > 0 } }

\* the require line that lists the extensions need, in ascending order
HeaderOf(need) ==
    "require ["
      \o Join([j \in 1..Cardinality(need) |->
                 GoQuote(SelectSeq(<<"body", "fileinto", "reject">>,
                                   LAMBDA n : n \in need)[j])], ", ")
      \o "];"

\* the text has no require line for no extension, else the one of need on
\* top, a blank line behind it, and no other
HeaderLists(text, need) ==
    \E ls \in {Split(text, "\n")} :
        IF need = {} THEN \A j \in 1..Len(ls) : ~isRequireLine(ls[j])
        ELSE /\ HasPrefix(text, HeaderOf(need) \o "\n\n")
             /\ \A j \in 2..Len(ls) : ~isRequireLine(ls[j])

\* the script of entry i stands in the combined body, behind its name
\* comment, as ConvertFilters wrote it
KeptUnchanged(i) ==
    Contains(combined.Content,
             "# Filter: " \o scripts[i].Name \o "\n" \o TrimSpace(scripts[i].Content) \o "\n")

\* C29: when CombineScripts is applied to the output of ConvertFilters, a
\* disabled entry adds nothing to the top require line, its commented
\* require line is not harvested: the combined header lists exactly the
\* extensions of the enabled entries that have at least one rule, and the
\* commented lines of the disabled entry stay in the body unchanged.
C29_DisabledNotHarvested ==
    Combined =>
        /\ \A i \in DisabledAt : scriptReqs(scripts[i]) = {} /\ KeptUnchanged(i)
        /\ HeaderLists(combined.Content, EnabledNeeds)

\* a disabled entry with a body test and a save stands in front of an
\* enabled entry whose reject dest holds a line that begins like a require
\* line: the header requires evil
C29_Witness ==
    /\ Combined
    /\ Len(filter.Filter) = 2
    /\ filter.Filter[1].Filtername = "Off" /\ filter.Filter[2].Filtername = "Loud"
    /\ HasPrefix(combined.Content, "require [\"evil\", \"reject\"];\n\n# Filter: Off\n")
    /\ ~Contains(combined.Content, "require [evil]")

\* no string of the entry holds a newline
PlainValues(flt) ==
    /\ \A j \in 1..Len(flt.Rules) : ~Contains(flt.Rules[j].Val, "\n")
    /\ \A j \in 1..Len(flt.Actions) : ~Contains(flt.Actions[j].Dest, "\n")

\* what the code does: a disabled entry adds nothing to the header and is
\* kept as written, whatever its strings hold; the header lists exactly the
\* extensions of the enabled entries with rules when no string of an enabled
\* entry holds a newline
DisabledContributesNothing ==
    Combined =>
        /\ \A i \in DisabledAt : scriptReqs(scripts[i]) = {} /\ KeptUnchanged(i)
        /\ (\A i \in 1..Len(filter.Filter) :
               filter.Filter[i].Enabled # 0 => PlainValues(filter.Filter[i]))
              => HeaderLists(combined.Content, EnabledNeeds)

\* the disabled Old, which rejects, in front of the enabled Nixpal: fileinto
\* alone is required, and the commented require line of Old is in the body
DisabledRequireStays ==
    /\ Combined
    /\ Len(filter.Filter) = 2
    /\ filter.Filter[1].Filtername = "Old" /\ filter.Filter[2].Filtername = "Nixpal"
    /\ HasPrefix(combined.Content, "require [\"fileinto\"];\n\n# Filter: Old\n")
    /\ HasLine(combined.Content, "// require [\"reject\"];")

(***************************************************************************)
(* C30: the password log of CreateMailboxesFromBackup                      *)
(***************************************************************************)
\* the calls of CreateMailbox that returned nil
NilAttempts == SelectSeq(attempts, LAMBDA at : ~CreateMailboxFails(at.answer))

\* the server created the mailbox of the call, with the password of the call
CreatedByRun(at) ==
    /\ at.answer.type = "success"
    /\ <<EmailOf(at.user, at.domain), at.pw>> \in mailboxes

\* the line is the password line of the call
PwLineOf(l, at) == l = PwLine(at.domain, at.user, at.pw)

\* C30: CreateMailboxesFromBackup calls CreateMailbox for a user only after
\* EnsureDomain succeeded for the domain in the same run, and writes a
\* password line to mailcow_mailboxes.log, and a created mailbox line to the
\* log, only for a mailbox this run created with the logged password; a
\* mailbox the API answered to exist already gets no password line.
C30_PasswordLog ==
    /\ \A i \in 1..Len(attempts) : attempts[i].domain \in ensured
    /\ \A i \in 1..Len(pwLog) :
          \E j \in 1..Len(attempts) :
              PwLineOf(pwLog[i], attempts[j]) /\ CreatedByRun(attempts[j])
    /\ \A i \in 1..Len(attempts) :
          Contains(attempts[i].answer.msg, "exist") =>
              \A k \in 1..Len(pwLog) : ~PwLineOf(pwLog[k], attempts[i])

\* the server had the mailbox chris@myip.gr and answered object_exists: the
\* password log holds a line with the password the server never took
C30_Witness ==
    /\ pc = "mcDone"
    /\ mailboxes = {<<"chris@myip.gr", "old">>}
    /\ Len(attempts) = 1
    /\ attempts[1].answer = Answer(FALSE, 200, "danger", "object_exists")
    /\ pwLog = <<"2026-01-02T15:04:05Z; myip.gr; chris; chris@myip.gr; pw1">>
    /\ logged = <<"mailcow: created mailbox chris@myip.gr (quota=10240MB, password=pw1)">>

\* what the code does: CreateMailbox is called only for a domain EnsureDomain
\* returned nil for, the password log holds one line for each call of
\* CreateMailbox that returned nil, in the order of the calls, and a mailbox
\* the server had keeps its password
PwLogOfNilReturns ==
    /\ \A i \in 1..Len(attempts) : attempts[i].domain \in ensured
    /\ pwLog = [i \in 1..Len(NilAttempts) |->
                  PwLine(NilAttempts[i].domain, NilAttempts[i].user, NilAttempts[i].pw)]
    /\ \A m \in mailboxes : m[2] = "old" \/ \E i \in 1..Len(attempts) :
                                              /\ CreatedByRun(attempts[i])
                                              /\ m = <<EmailOf(attempts[i].user, attempts[i].domain),
                                                       attempts[i].pw>>

\* CreateMailbox is called in the loop over the users of a domain for which
\* EnsureDomain has returned nil
EnsuredBeforeCreate ==
    [][Len(attempts') > Len(attempts)
          => pc = "users" /\ backupTree[domIdx].name \in ensured]_vars

\* a run created a mailbox and logged its password
CreatedAndLogged ==
    /\ pc = "mcDone"
    /\ mailboxes = {<<"ann@x.org", "pw2">>, <<"chris@myip.gr", "pw1">>}
    /\ Len(pwLog) = 2

====
